---- MODULE Spec2Model ----
(***************************************************************************)
(* Model of the hospital data-quality toolkit: the per-use-case domain     *)
(* services (pure aggregations over the records a repository lists) and    *)
(* the HTTP facade over the dataset file.                                   *)
(*                                                                         *)
(* Encoding of Python values:                                              *)
(*  - a str is a sequence of characters, a character a one-token string;   *)
(*    "a^" is the precomposed letter a-acute, "A^" its capital, "^" the    *)
(*    combining acute accent, " " and "\t" are whitespace;                 *)
(*  - a record (PatientRecord, AppointmentRecord) is a function from field *)
(*    names; a field whose value is None is absent from the DOMAIN, the    *)
(*    way source.get(field) yields None for an absent (or null) key;       *)
(*  - a float that the code compares is kept as an exact rational: the     *)
(*    comparisons are cross-multiplied.                                    *)
(***************************************************************************)
EXTENDS Integers, Sequences, FiniteSets, Bags, TLC

VARIABLES
    appointments,   \* what AppointmentRepository.list_appointments() yields
    patients,       \* what PatientRepository.list_patients() yields
    report,         \* what the last service call or HTTP request returned
    dataset,        \* the content of the dataset file backend/app.py serves
    reportFiles,    \* the files under the reports directory
    uploading,      \* the upload_dataset call that is writing the file
    runs            \* the post_run calls between their two reads of the file

(***************************************************************************)
(* A date string "YYYY-MM-DD" is the tuple <<year, month, day>> of its     *)
(* three numbers, which need not name a day of the calendar ("2023-02-29"  *)
(* is <<2023, 2, 29>>); "" is <<>>. A datetime.date is such a tuple that   *)
(* names a day of the calendar.                                            *)
(***************************************************************************)

server == <<dataset, reportFiles, uploading, runs>>

vars == <<appointments, patients, report, server>>

\* No service has run yet.
NoReport == [service |-> "none"]

\* A dataset document: a JSON object whose two tables are named by a tag
\* that stands for the array of records.
DatasetDoc(pacientes, citas_medicas) ==
    [kind |-> "object", pacientes |-> pacientes, citas_medicas |-> citas_medicas]

\* The dataset file as shipped beside the backend.
ShippedDataset == DatasetDoc("P1", "C1")

NoUpload == [active |-> FALSE]

\* The server before any request: used by the specifications of the
\* services, which run on records already listed from a repository.
ServerIdle ==
    /\ dataset = ShippedDataset
    /\ reportFiles = {}
    /\ uploading = NoUpload
    /\ runs = EmptyBag

(***************************************************************************)
(* Generic helpers                                                         *)
(***************************************************************************)
Has(r, f) == f \in DOMAIN r

\* All sequences over S of length 0..n.
SeqUpTo(S, n) == UNION {[1..k -> S] : k \in 0..n}

\* The records of R, each also extended with field f set to a value of S.
WithOpt(R, f, S) == R \cup {r @@ (f :> v) : r \in R, v \in S}

RECURSIVE SumSeq(_)
SumSeq(s) == IF s = <<>> THEN 0 ELSE Head(s) + SumSeq(Tail(s))

RECURSIVE SumSqSeq(_)
SumSqSeq(s) == IF s = <<>> THEN 0 ELSE Head(s) * Head(s) + SumSqSeq(Tail(s))

Abs(x) == IF x < 0 THEN -x ELSE x

\* list.remove(x): the list without the first element equal to x.
RECURSIVE RemoveFirst(_, _)
RemoveFirst(s, x) ==
    IF s = <<>> THEN <<>>
    ELSE IF Head(s) = x THEN Tail(s)
    ELSE <<Head(s)>> \o RemoveFirst(Tail(s), x)

\* The elements of a finite set of integers in increasing order.
RECURSIVE AscSeq(_)
AscSeq(S) ==
    IF S = {} THEN <<>>
    ELSE LET m == CHOOSE x \in S : \A y \in S : x <= y
         IN  <<m>> \o AscSeq(S \ {m})

\* The indices 1..n that satisfy Keep, in increasing order: the positions a
\* filtering loop or comprehension keeps.
IndicesWhere(n, Keep(_)) == AscSeq({i \in 1..n : Keep(i)})

(***************************************************************************)
(* str helpers                                                             *)
(***************************************************************************)
WhitespaceChars == {" ", "\t"}

IsSpace(ch) == ch \in WhitespaceChars

\* str.strip(): leading and trailing whitespace removed.
RECURSIVE LStrip(_)
LStrip(s) == IF s # <<>> /\ IsSpace(Head(s)) THEN LStrip(Tail(s)) ELSE s

RECURSIVE RStrip(_)
RStrip(s) ==
    IF s # <<>> /\ IsSpace(s[Len(s)]) THEN RStrip(SubSeq(s, 1, Len(s) - 1)) ELSE s

Strip(s) == RStrip(LStrip(s))

\* " ".join(s.split()): runs of whitespace become one space, none is left
\* at either end.
RECURSIVE CollapseRec(_)
CollapseRec(s) ==
    IF s = <<>> THEN <<>>
    ELSE IF IsSpace(Head(s)) THEN <<" ">> \o CollapseRec(LStrip(s))
    ELSE <<Head(s)>> \o CollapseRec(Tail(s))

JoinSplit(s) == CollapseRec(Strip(s))

\* str.lower(), character by character.
LowerChar(ch) ==
    CASE ch = "A" -> "a"
      [] ch = "B" -> "b"
      [] ch = "A^" -> "a^"
      [] OTHER -> ch

Lower(s) == [i \in 1..Len(s) |-> LowerChar(s[i])]

\* Unicode code points of the characters of the model: Python orders str
\* values by them.
CharCode(ch) ==
    CASE ch = "\t" -> 9
      [] ch = " " -> 32
      [] ch = "A" -> 65
      [] ch = "B" -> 66
      [] ch = "a" -> 97
      [] ch = "b" -> 98
      [] ch = "A^" -> 193
      [] ch = "a^" -> 225
      [] ch = "^" -> 769
      [] OTHER -> 95

\* a < b for two sort keys, tuples of integers that Python compares item
\* by item (a str key is the tuple of its code points, see StrKey).
RECURSIVE KeyLess(_, _)
KeyLess(a, b) ==
    IF b = <<>> THEN FALSE
    ELSE IF a = <<>> THEN TRUE
    ELSE IF Head(a) = Head(b) THEN KeyLess(Tail(a), Tail(b))
    ELSE Head(a) < Head(b)

RECURSIVE StrKey(_)
StrKey(s) == IF s = <<>> THEN <<>> ELSE <<CharCode(Head(s))>> \o StrKey(Tail(s))

\* sorted(...) and list.sort(...), which are stable, over a sequence of
\* [key, val] pairs: an insertion sort that puts each element after the
\* elements of smaller or equal key that precede it in the input.
RECURSIVE InsertKeyed(_, _)
InsertKeyed(x, s) ==
    IF s = <<>> THEN <<x>>
    ELSE IF KeyLess(x.key, Head(s).key) THEN <<x>> \o s
    ELSE <<Head(s)>> \o InsertKeyed(x, Tail(s))

RECURSIVE SortKeyed(_)
SortKeyed(s) ==
    IF s = <<>> THEN <<>>
    ELSE InsertKeyed(s[Len(s)], SortKeyed(SubSeq(s, 1, Len(s) - 1)))

RECURSIVE Vals(_)
Vals(s) == IF s = <<>> THEN <<>> ELSE <<Head(s).val>> \o Vals(Tail(s))

\* The elements of s at the indices idx, in that order.
RECURSIVE Pick(_, _)
Pick(s, idx) == IF idx = <<>> THEN <<>> ELSE <<s[Head(idx)]>> \o Pick(s, Tail(idx))

Range(s) == {s[i] : i \in 1..Len(s)}

(***************************************************************************)
(* AppointmentCostAuditService                                             *)
(***************************************************************************)
SinEspecialidad == <<"sin_especialidad">>

\* _normalize_specialty: the stripped value, or the default for a value
\* that is None, empty or blank.
NormalizeSpecialty(r) ==
    IF Has(r, "especialidad") /\ Strip(r.especialidad) # <<>>
    THEN Strip(r.especialidad)
    ELSE SinEspecialidad

\* processed_costs: the records that carry a cost (costo is not None), in
\* repository order, as indices into records.
ProcessedCosts(records) ==
    IndicesWhere(Len(records), LAMBDA i : Has(records[i], "costo"))

\* specialty_costs[specialty]: the costs of that specialty, in order.
SpecialtyCosts(records, specialty) ==
    LET idx == IndicesWhere(Len(records),
                   LAMBDA i : Has(records[i], "costo")
                              /\ NormalizeSpecialty(records[i]) = specialty)
    IN  [k \in 1..Len(idx) |-> records[idx[k]].costo]

\* n * (n - 1) * variance of the costs, an integer: n * sum(x^2) - sum(x)^2.
\* statistics.stdev(costs) is the square root of it over n * (n - 1).
ScaledVariance(costs) ==
    Len(costs) * SumSqSeq(costs) - SumSeq(costs) * SumSeq(costs)

\* stdev(others) if len(others) > 1 else 0.0, compared with 0.
DeviationIsPositive(others) ==
    Len(others) > 1 /\ ScaledVariance(others) > 0

\* diff > threshold_multiplier * deviation_value, for diff = |costo - mean(others)|
\* and deviation_value = stdev(others): both sides squared and multiplied by
\* k^2 * (k - 1), with k = len(others) > 1.
ExceedsThresholdMutant(costo, others) ==
    LET k == Len(others)
    IN  (k - 1) * (k * costo - SumSeq(others)) * (k * costo - SumSeq(others))
            > k * ScaledVariance(others)

ThresholdMultiplier == 2

ExceedsThreshold(costo, others) ==
    LET k == Len(others)
    IN  (k - 1) * (k * costo - SumSeq(others)) * (k * costo - SumSeq(others))
            > ThresholdMultiplier * ThresholdMultiplier * k * ScaledVariance(others)

\* The body of the anomaly loop for the record at index i of processed_costs.
IsCostAnomaly(records, i) ==
    LET costs  == SpecialtyCosts(records, NormalizeSpecialty(records[i]))
        others == RemoveFirst(costs, records[i].costo)
    IN  /\ Len(costs) > 1
        /\ others # <<>>
        /\ DeviationIsPositive(others)
        /\ ExceedsThreshold(records[i].costo, others)

\* CostAnomalyEntry; deviation = |costo - mean(others)| as the fraction num/den.
CostAnomalyEntry(records, i) ==
    LET others == RemoveFirst(SpecialtyCosts(records, NormalizeSpecialty(records[i])),
                              records[i].costo)
        base == [id_cita |-> records[i].id_cita,
                 especialidad |-> NormalizeSpecialty(records[i]),
                 costo |-> records[i].costo,
                 deviation |-> [num |-> Abs(Len(others) * records[i].costo - SumSeq(others)),
                                den |-> Len(others)]]
    IN  IF Has(records[i], "id_paciente")
        THEN base @@ ("id_paciente" :> records[i].id_paciente)
        ELSE base

\* The product of the denominators of the deviations of the entries.
RECURSIVE DenProduct(_)
DenProduct(entries) ==
    IF entries = <<>> THEN 1 ELSE Head(entries).deviation.den * DenProduct(Tail(entries))

\* key=lambda a: -a.deviation, over the common denominator d of the entries.
RECURSIVE ByDeviation(_, _)
ByDeviation(entries, d) ==
    IF entries = <<>> THEN <<>>
    ELSE <<[key |-> <<0 - Head(entries).deviation.num * (d \div Head(entries).deviation.den)>>,
            val |-> Head(entries)]>> \o ByDeviation(Tail(entries), d)

\* key=lambda s: s.especialidad
RECURSIVE BySpecialty(_)
BySpecialty(summaries) ==
    IF summaries = <<>> THEN <<>>
    ELSE <<[key |-> StrKey(Head(summaries).especialidad), val |-> Head(summaries)]>>
             \o BySpecialty(Tail(summaries))

\* SpecialtyCostSummary: count, average (sum over count) and the variance
\* behind std_dev (scaled over count * (count - 1); 0.0 for a single cost).
SpecialtyCostSummary(records, specialty) ==
    LET costs == SpecialtyCosts(records, specialty)
    IN  [especialidad |-> specialty,
         count |-> Len(costs),
         average |-> [num |-> SumSeq(costs), den |-> Len(costs)],
         std_dev_sq |-> [num |-> IF Len(costs) > 1 THEN ScaledVariance(costs) ELSE 0,
                         den |-> IF Len(costs) > 1 THEN Len(costs) * (Len(costs) - 1) ELSE 1]]

\* The specialties of specialty_costs in insertion order (first appearance).
RECURSIVE SpecialtyOrder(_, _, _)
SpecialtyOrder(records, idx, seen) ==
    IF idx = <<>> THEN <<>>
    ELSE LET sp == NormalizeSpecialty(records[Head(idx)])
         IN  IF sp \in seen THEN SpecialtyOrder(records, Tail(idx), seen)
             ELSE <<sp>> \o SpecialtyOrder(records, Tail(idx), seen \cup {sp})

RECURSIVE CostSummaries(_, _)
CostSummaries(records, order) ==
    IF order = <<>> THEN <<>>
    ELSE <<SpecialtyCostSummary(records, Head(order))>> \o CostSummaries(records, Tail(order))

\* The anomaly loop over processed_costs.
RECURSIVE CostAnomalies(_, _)
CostAnomalies(records, processed) ==
    IF processed = <<>> THEN <<>>
    ELSE (IF IsCostAnomaly(records, Head(processed))
          THEN <<CostAnomalyEntry(records, Head(processed))>> ELSE <<>>)
         \o CostAnomalies(records, Tail(processed))

\* AppointmentCostAuditService.analyze
CostAuditReport(records) ==
    LET processed == ProcessedCosts(records)
        summaries == CostSummaries(records, SpecialtyOrder(records, processed, {}))
        anomalies == CostAnomalies(records, processed)
    IN  [service |-> "cost_audit",
         total_records |-> Len(records),
         analyzed_records |-> Len(processed),
         summaries |-> Vals(SortKeyed(BySpecialty(summaries))),
         anomalies |-> Vals(SortKeyed(ByDeviation(anomalies, DenProduct(anomalies))))]

MaxCostRecords == 3
CostValues == {0, 2, 3, 4}
CostSpecialties == {<<"A">>, <<"A", " ">>}

\* An appointment of the cost audit, without its id: costo and especialidad
\* may be None.
CostShapes ==
    WithOpt(WithOpt({[medico |-> <<"D">>]}, "costo", CostValues),
            "especialidad", CostSpecialties)

\* The appointment lists of the cost audit; id_cita is the position.
CostInit ==
    /\ \E k \in 0..MaxCostRecords : \E sh \in [1..k -> CostShapes] :
           appointments = [i \in 1..k |-> sh[i] @@ ("id_cita" :> i)]
    /\ patients = <<>>
    /\ report = NoReport
    /\ ServerIdle

CostAnalyze ==
    /\ report' = CostAuditReport(appointments)
    /\ UNCHANGED <<appointments, patients, server>>

CostNext == CostAnalyze

SpecCost == CostInit /\ [][CostNext]_vars

\* The costed appointments of the specialty of appointment i, other than i.
C1_OtherCosts(i) ==
    LET idx == AscSeq({j \in 1..Len(appointments) :
                   /\ j # i
                   /\ Has(appointments[j], "costo")
                   /\ NormalizeSpecialty(appointments[j]) = NormalizeSpecialty(appointments[i])})
    IN  [k \in 1..Len(idx) |-> appointments[idx[k]].costo]

\* |costo - mean| > 2 * stdev(others), where mean is sum / n and stdev the
\* sample standard deviation of others (k = len(others) >= 2); squared and
\* cleared of denominators.
C1_DeviatesFrom(costo, sum, n, others) ==
    LET k == Len(others)
    IN  k * (k - 1) * (n * costo - sum) * (n * costo - sum)
            > 4 * n * n * ScaledVariance(others)

\* The appointments C1 names: a cost, a defined leave-one-out deviation, and a
\* distance from the mean of ALL the costs of the specialty beyond twice it.
C1_ClaimedAnomalies ==
    {i \in 1..Len(appointments) :
        /\ Has(appointments[i], "costo")
        /\ Len(C1_OtherCosts(i)) >= 2
        /\ C1_DeviatesFrom(appointments[i].costo,
                           SumSeq(C1_OtherCosts(i)) + appointments[i].costo,
                           Len(C1_OtherCosts(i)) + 1,
                           C1_OtherCosts(i))}

\* The same with the leave-one-out mean, and a deviation that is positive.
C1_LeaveOneOutAnomalies ==
    {i \in 1..Len(appointments) :
        /\ Has(appointments[i], "costo")
        /\ Len(C1_OtherCosts(i)) >= 2
        /\ ScaledVariance(C1_OtherCosts(i)) > 0
        /\ C1_DeviatesFrom(appointments[i].costo,
                           SumSeq(C1_OtherCosts(i)),
                           Len(C1_OtherCosts(i)),
                           C1_OtherCosts(i))}

C1_Reported(S) ==
    /\ Len(report.anomalies) = Cardinality(S)
    /\ {a.id_cita : a \in Range(report.anomalies)} = {appointments[i].id_cita : i \in S}

\* C1 as stated: the anomalies are exactly the costed appointments whose cost
\* is further from the specialty mean than twice the leave-one-out standard
\* deviation.
C1_AnomaliesAroundSpecialtyMean ==
    report.service = "cost_audit" => C1_Reported(C1_ClaimedAnomalies)

\* C1 as amended: the anomalies are exactly the costed appointments whose
\* cost is further from the leave-one-out mean (the mean of the other costed
\* appointments of the specialty) than twice the leave-one-out standard
\* deviation, when that deviation is defined (two others or more) and
\* positive; one entry each.
C1_AnomaliesAroundLeaveOneOutMean ==
    report.service = "cost_audit" => C1_Reported(C1_LeaveOneOutAnomalies)

\* An audit that reports one appointment and passes another of the same
\* specialty.
C1_Witness ==
    /\ report.service = "cost_audit"
    /\ Len(report.anomalies) = 1
    /\ report.analyzed_records = 3
    /\ Len(report.summaries) = 1

(***************************************************************************)
(* DuplicateDetectionService                                               *)
(***************************************************************************)
IntFields == {"id_paciente", "edad", "costo"}

\* Python truthiness of a field: not None, and not 0 (an int field) or not
\* "" (a str field).
Truthy(r, f) == Has(r, f) /\ (IF f \in IntFields THEN r[f] # 0 ELSE r[f] # <<>>)

ScoredFields == <<"fecha_nacimiento", "edad", "sexo", "email", "telefono", "ciudad">>

\* _completeness_score
CompletenessScore(r) ==
    Cardinality({k \in 1..Len(ScoredFields) : Truthy(r, ScoredFields[k])})

\* _normalize
DupNormalize(text) == Lower(JoinSplit(text))

NoKey == <<"None">>

\* _key_by_birthdate
KeyByBirthdate(r) ==
    IF ~Truthy(r, "nombre") \/ ~Truthy(r, "fecha_nacimiento") THEN NoKey
    ELSE <<DupNormalize(r.nombre), r.fecha_nacimiento>>

\* _key_by_city
KeyByCity(r) ==
    IF ~Truthy(r, "nombre") \/ ~Truthy(r, "ciudad") THEN NoKey
    ELSE <<DupNormalize(r.nombre), DupNormalize(r.ciudad)>>

KeyFn(criteria, r) ==
    IF criteria = "nombre+fecha_nacimiento" THEN KeyByBirthdate(r) ELSE KeyByCity(r)

\* _group_by: the groups in insertion order of their keys, each the indices
\* of its records in repository order.
RECURSIVE GroupKeys(_, _, _, _)
GroupKeys(records, criteria, i, seen) ==
    IF i > Len(records) THEN <<>>
    ELSE LET key == KeyFn(criteria, records[i])
         IN  IF key = NoKey \/ key \in seen
             THEN GroupKeys(records, criteria, i + 1, seen)
             ELSE <<key>> \o GroupKeys(records, criteria, i + 1, seen \cup {key})

GroupBy(records, criteria) ==
    LET keys == GroupKeys(records, criteria, 1, {})
    IN  [k \in 1..Len(keys) |->
            AscSeq({i \in 1..Len(records) : KeyFn(criteria, records[i]) = keys[k]})]

\* key=lambda r: (-_completeness_score(r), r.id_paciente)
RECURSIVE ByCanonicalKey(_)
ByCanonicalKey(group) ==
    IF group = <<>> THEN <<>>
    ELSE <<[key |-> <<0 - CompletenessScore(Head(group)), Head(group).id_paciente>>,
            val |-> Head(group)]>> \o ByCanonicalKey(Tail(group))

\* _select_canonical: the group sorted; its head is the canonical record and
\* its tail the others.
SelectCanonical(group) == Vals(SortKeyed(ByCanonicalKey(group)))

\* The others kept whether archived already or not.
NewDuplicatesMutant(canonical, others, archived_ids) ==
    SelectSeq(others, LAMBDA r : r.id_paciente # canonical.id_paciente)

\* new_duplicates: the others whose id is neither the canonical one nor
\* already archived.
NewDuplicates(canonical, others, archived_ids) ==
    SelectSeq(others, LAMBDA r : /\ r.id_paciente # canonical.id_paciente
                                   /\ r.id_paciente \notin archived_ids)

\* DuplicateConsolidationLogEntry
DuplicateLogEntry(canonical, criteria, new_duplicates) ==
    [canonical_id |-> canonical.id_paciente,
     canonical_nombre |-> canonical.nombre,
     criteria |-> criteria,
     duplicate_ids |-> [k \in 1..Len(new_duplicates) |-> new_duplicates[k].id_paciente]]

\* The body of the loop over the groups of a criterion, for one group that
\* is already sorted by _select_canonical; acc carries log_entries and
\* archived_ids.
DetectSorted(sorted, criteria, acc, new_duplicates) ==
    IF new_duplicates = <<>> THEN acc
    ELSE [archived_ids |-> acc.archived_ids
                              \cup {r.id_paciente : r \in Range(new_duplicates)},
          log_entries |-> Append(acc.log_entries,
                              DuplicateLogEntry(Head(sorted), criteria, new_duplicates))]

DetectGroup(group, criteria, acc, sorted) ==
    IF Len(group) < 2 THEN acc
    ELSE DetectSorted(sorted, criteria, acc,
                      NewDuplicates(Head(sorted), Tail(sorted), acc.archived_ids))

\* The loop over the groups of a criterion.
RECURSIVE DetectGroups(_, _, _, _)
DetectGroups(records, criteria, groups, acc) ==
    IF groups = <<>> THEN acc
    ELSE DetectGroups(records, criteria, Tail(groups),
             DetectGroup(Pick(records, Head(groups)), criteria, acc,
                         SelectCanonical(Pick(records, Head(groups)))))

RECURSIVE SumLens(_)
SumLens(entries) ==
    IF entries = <<>> THEN 0
    ELSE Len(Head(entries).duplicate_ids) + SumLens(Tail(entries))

\* DuplicateDetectionService.detect_duplicates
DuplicateReport(records) ==
    LET first  == DetectGroups(records, "nombre+fecha_nacimiento",
                      GroupBy(records, "nombre+fecha_nacimiento"),
                      [archived_ids |-> {}, log_entries |-> <<>>])
        second == DetectGroups(records, "nombre+ciudad",
                      GroupBy(records, "nombre+ciudad"), first)
    IN  [service |-> "duplicate_detection",
         total_records |-> Len(records),
         total_groups |-> Len(second.log_entries),
         total_duplicates |-> SumLens(second.log_entries),
         log_entries |-> second.log_entries]

MaxDupPatients == 3
DupBirthdates == {<<"d">>}
DupAges == {0, 3}
DupCities == {<<"x">>}

\* A patient of the duplicate detection, without its id: the patient "a"
\* with every combination of birth date, age and city present or None, a
\* patient whose name differs from it in case and spacing, and a patient
\* of another name.
DupShapes ==
    WithOpt(WithOpt(WithOpt({[nombre |-> <<"a">>]},
        "fecha_nacimiento", DupBirthdates), "edad", DupAges), "ciudad", DupCities)
    \cup {[nombre |-> <<"A", " ">>, fecha_nacimiento |-> <<"d">>, ciudad |-> <<"x">>],
          [nombre |-> <<"b">>, fecha_nacimiento |-> <<"d">>, ciudad |-> <<"x">>]}

\* The patient lists: the ids are distinct, ascending or descending.
DupInit ==
    /\ \E k \in 0..MaxDupPatients : \E sh \in [1..k -> DupShapes] : \E up \in BOOLEAN :
           patients = [i \in 1..k |-> sh[i] @@ ("id_paciente" :> IF up THEN i ELSE k + 1 - i)]
    /\ appointments = <<>>
    /\ report = NoReport
    /\ ServerIdle

DetectDuplicates ==
    /\ report' = DuplicateReport(patients)
    /\ UNCHANGED <<appointments, patients, server>>

DupNext == DetectDuplicates

SpecDup == DupInit /\ [][DupNext]_vars

\* The number of optional fields of a patient that are not empty: the field
\* is not None, and a str field is not "".
C2_NonEmptyCount(r) ==
    Cardinality({k \in 1..Len(ScoredFields) :
        /\ Has(r, ScoredFields[k])
        /\ (ScoredFields[k] \in IntFields \/ r[ScoredFields[k]] # <<>>)})

\* The patients that share the normalized name and the birth date of r.
C2_Group(r) ==
    {q \in Range(patients) : KeyByBirthdate(q) = KeyByBirthdate(r)}

\* r is the most complete record of G, and of the most complete ones the
\* one of lowest id.
C2_Best(r, G, Count(_)) ==
    \A q \in G : \/ Count(r) > Count(q)
                 \/ (Count(r) = Count(q) /\ r.id_paciente <= q.id_paciente)

\* The canonical records the report names under the name+birthdate criterion.
C2_Canonicals ==
    {r \in Range(patients) :
        \E k \in 1..Len(report.log_entries) :
            /\ report.log_entries[k].criteria = "nombre+fecha_nacimiento"
            /\ report.log_entries[k].canonical_id = r.id_paciente}

\* C2: every group of two or more patients with the same normalized name
\* and birth date has a canonical record, the one with the most non-empty
\* optional fields and, among those, the lowest id_paciente.
C2_CanonicalIsMostComplete ==
    report.service = "duplicate_detection" =>
        \A r \in Range(patients) :
            (KeyByBirthdate(r) # NoKey /\ Cardinality(C2_Group(r)) >= 2) =>
                \E c \in C2_Canonicals \cap C2_Group(r) :
                    C2_Best(c, C2_Group(r), C2_NonEmptyCount)

\* What the code does instead: the same with the fields counted by their
\* truth value, which takes an edad of 0 for an empty field.
C2_CanonicalIsMostTruthy ==
    report.service = "duplicate_detection" =>
        \A r \in Range(patients) :
            (KeyByBirthdate(r) # NoKey /\ Cardinality(C2_Group(r)) >= 2) =>
                \E c \in C2_Canonicals \cap C2_Group(r) :
                    C2_Best(c, C2_Group(r), CompletenessScore)

(***************************************************************************)
(* ReferentialIntegrityService                                             *)
(***************************************************************************)
\* _load_patient_ids
LoadPatientIds(patient_records) == {r.id_paciente : r \in Range(patient_records)}

\* The motivo of the entry the loop of check() appends for a record, or
\* "none" when it appends nothing.
OrphanMotivoMutant(record, patient_ids) ==
    IF ~Truthy(record, "id_paciente") THEN "id_paciente ausente"
    ELSE IF record.id_paciente \notin patient_ids THEN "paciente no registrado"
    ELSE "none"

OrphanMotivo(record, patient_ids) ==
    IF ~Has(record, "id_paciente") THEN "id_paciente ausente"
    ELSE IF record.id_paciente \notin patient_ids THEN "paciente no registrado"
    ELSE "none"

\* ReferentialIntegrityEntry
ReferentialIntegrityEntry(record, motivo) ==
    IF Has(record, "id_paciente")
    THEN [id_cita |-> record.id_cita, id_paciente |-> record.id_paciente, motivo |-> motivo]
    ELSE [id_cita |-> record.id_cita, motivo |-> motivo]

\* The loop of check() over the appointment records.
RECURSIVE OrphanEntries(_, _)
OrphanEntries(records, patient_ids) ==
    IF records = <<>> THEN <<>>
    ELSE (IF OrphanMotivo(Head(records), patient_ids) = "none" THEN <<>>
          ELSE <<ReferentialIntegrityEntry(Head(records),
                                           OrphanMotivo(Head(records), patient_ids))>>)
         \o OrphanEntries(Tail(records), patient_ids)

\* ReferentialIntegrityService.check
ReferentialIntegrityReport(appointment_records, patient_records) ==
    LET entries == OrphanEntries(appointment_records, LoadPatientIds(patient_records))
    IN  [service |-> "referential_integrity",
         total_citas |-> Len(appointment_records),
         orphan_citas |-> Len(entries),
         entries |-> entries]

MaxRefPatients == 2
MaxRefAppointments == 3
RefPatientIds == {0, 1, 2}

\* The patients carry an id each; the appointments carry their position as
\* id_cita and refer to a patient id, or to None.
RefInit ==
    /\ \E k \in 0..MaxRefPatients : \E ids \in [1..k -> RefPatientIds] :
           patients = [i \in 1..k |-> [id_paciente |-> ids[i], nombre |-> <<"a">>]]
    /\ \E k \in 0..MaxRefAppointments :
           \E sh \in [1..k -> WithOpt({[medico |-> <<"D">>]}, "id_paciente", RefPatientIds)] :
               appointments = [i \in 1..k |-> sh[i] @@ ("id_cita" :> i)]
    /\ report = NoReport
    /\ ServerIdle

RefCheck ==
    /\ report' = ReferentialIntegrityReport(appointments, patients)
    /\ UNCHANGED <<appointments, patients, server>>

RefNext == RefCheck

SpecRef == RefInit /\ [][RefNext]_vars

\* The appointments without a patient: id_paciente is None, or no patient
\* has that id.
C3_Orphans ==
    {i \in 1..Len(appointments) :
        \/ ~Has(appointments[i], "id_paciente")
        \/ \A p \in 1..Len(patients) :
               patients[p].id_paciente # appointments[i].id_paciente}

\* C3: the orphan entries are exactly the appointments whose id_paciente is
\* None or the id of no patient, one entry each and orphan_citas their
\* number; motivo is 'id_paciente ausente' for a None reference and
\* 'paciente no registrado' for a dangling one.
C3_OrphansAreExactlyTheUnreferenced ==
    report.service = "referential_integrity" =>
        /\ report.orphan_citas = Cardinality(C3_Orphans)
        /\ Len(report.entries) = Cardinality(C3_Orphans)
        /\ {e.id_cita : e \in Range(report.entries)} = {appointments[i].id_cita : i \in C3_Orphans}
        /\ \A e \in Range(report.entries) : \A i \in C3_Orphans :
               appointments[i].id_cita = e.id_cita =>
                   /\ Has(e, "id_paciente") = Has(appointments[i], "id_paciente")
                   /\ e.motivo = IF Has(appointments[i], "id_paciente")
                                 THEN "paciente no registrado" ELSE "id_paciente ausente"

\* A check that reports a None reference and a dangling one and passes a
\* third appointment.
C3_Witness ==
    /\ report.service = "referential_integrity"
    /\ report.total_citas = 3
    /\ report.orphan_citas = 2
    /\ \E e \in Range(report.entries) : e.motivo = "id_paciente ausente"
    /\ \E e \in Range(report.entries) : e.motivo = "paciente no registrado"

(***************************************************************************)
(* AgeConsistencyService                                                   *)
(***************************************************************************)
IsLeapYear(y) == (y % 4 = 0 /\ y % 100 # 0) \/ y % 400 = 0

DaysInMonth(y, m) ==
    IF m = 2 THEN (IF IsLeapYear(y) THEN 29 ELSE 28)
    ELSE IF m \in {4, 6, 9, 11} THEN 30
    ELSE 31

\* Whether datetime.fromisoformat(value) returns (it raises ValueError for
\* numbers that name no day of the calendar).
IsIsoDate(value) ==
    /\ Len(value) = 3
    /\ value[1] \in 1..9999
    /\ value[2] \in 1..12
    /\ value[3] \in 1..DaysInMonth(value[1], value[2])

NoDate == <<>>

\* _parse_birthdate: None for a value that is None, empty or no ISO date.
ParseBirthdate(r) ==
    IF Has(r, "fecha_nacimiento") /\ r.fecha_nacimiento # <<>>
          /\ IsIsoDate(r.fecha_nacimiento)
    THEN r.fecha_nacimiento
    ELSE NoDate

\* _calculate_age
CalculateAgeMutant(birth_date, cutoff_date) ==
    LET years == cutoff_date[1] - birth_date[1]
    IN  IF years < 0 THEN 0 ELSE years

CalculateAge(birth_date, cutoff_date) ==
    LET years == cutoff_date[1] - birth_date[1]
        adjusted == IF KeyLess(<<cutoff_date[2], cutoff_date[3]>>,
                               <<birth_date[2], birth_date[3]>>)
                    THEN years - 1 ELSE years
    IN  IF adjusted < 0 THEN 0 ELSE adjusted

\* The fields of AgeCorrectionLogEntry that echo the record; the optional
\* ones are absent when None.
AgeEntryBase(r) ==
    LET base == [id_paciente |-> r.id_paciente, nombre |-> r.nombre]
        withDate == IF Has(r, "fecha_nacimiento")
                    THEN base @@ ("fecha_nacimiento" :> r.fecha_nacimiento) ELSE base
    IN  IF Has(r, "edad") THEN withDate @@ ("edad_registrada" :> r.edad) ELSE withDate

\* The body of the loop without the continue that ends the imputation: the
\* record without an age is then also compared with the calculated age.
AgeEntriesMutant(r, cutoff_date) ==
    IF ParseBirthdate(r) = NoDate
    THEN <<AgeEntryBase(r) @@ ("action" :>
              IF ~Has(r, "fecha_nacimiento") \/ r.fecha_nacimiento = <<>>
              THEN "missing_birthdate" ELSE "invalid_birthdate")>>
    ELSE IF ~Has(r, "edad")
    THEN <<AgeEntryBase(r) @@ ("action" :> "imputed_age")
              @@ ("edad_calculada" :> CalculateAge(ParseBirthdate(r), cutoff_date)),
           AgeEntryBase(r) @@ ("action" :> "inconsistent_age")
              @@ ("edad_calculada" :> CalculateAge(ParseBirthdate(r), cutoff_date))>>
    ELSE IF r.edad # CalculateAge(ParseBirthdate(r), cutoff_date)
    THEN <<AgeEntryBase(r) @@ ("action" :> "inconsistent_age")
              @@ ("edad_calculada" :> CalculateAge(ParseBirthdate(r), cutoff_date))>>
    ELSE <<>>

\* The body of the loop of audit_ages: the entries (none or one) it logs
\* for a record.
AgeEntries(r, cutoff_date) ==
    IF ParseBirthdate(r) = NoDate
    THEN <<AgeEntryBase(r) @@ ("action" :>
              IF ~Has(r, "fecha_nacimiento") \/ r.fecha_nacimiento = <<>>
              THEN "missing_birthdate" ELSE "invalid_birthdate")>>
    ELSE IF ~Has(r, "edad")
    THEN <<AgeEntryBase(r) @@ ("action" :> "imputed_age")
              @@ ("edad_calculada" :> CalculateAge(ParseBirthdate(r), cutoff_date))>>
    ELSE IF r.edad # CalculateAge(ParseBirthdate(r), cutoff_date)
    THEN <<AgeEntryBase(r) @@ ("action" :> "inconsistent_age")
              @@ ("edad_calculada" :> CalculateAge(ParseBirthdate(r), cutoff_date))>>
    ELSE <<>>

RECURSIVE AgeLog(_, _)
AgeLog(records, cutoff_date) ==
    IF records = <<>> THEN <<>>
    ELSE AgeEntries(Head(records), cutoff_date) \o AgeLog(Tail(records), cutoff_date)

CountAction(entries, actions) ==
    Cardinality({k \in 1..Len(entries) : entries[k].action \in actions})

\* AgeConsistencyService.audit_ages
AgeConsistencyReport(records, cutoff_date) ==
    LET log_entries == AgeLog(records, cutoff_date)
    IN  [service |-> "age_consistency",
         cutoff_date |-> cutoff_date,
         total_records |-> Len(records),
         inconsistencies |-> CountAction(log_entries, {"inconsistent_age"}),
         imputations |-> CountAction(log_entries, {"imputed_age"}),
         missing_birthdate_records |->
             CountAction(log_entries, {"missing_birthdate", "invalid_birthdate"}),
         log_entries |-> log_entries]

MaxAgePatients == 2
\* "2000-02-29", "2000-06-15", "2024-06-15", "2026-01-01", then the strings
\* "2023-02-29" and "2000-13-01", which name no day, and "".
AgeBirthdates ==
    {<<2000, 2, 29>>, <<2000, 6, 15>>, <<2024, 6, 15>>, <<2026, 1, 1>>,
     <<2023, 2, 29>>, <<2000, 13, 1>>, <<>>}
AgeAges == {0, 24}
AgeCutoffs == {<<2025, 2, 28>>, <<2025, 3, 1>>, <<2024, 2, 29>>}

AgeInit ==
    /\ \E k \in 0..MaxAgePatients :
           \E sh \in [1..k -> WithOpt(WithOpt({[nombre |-> <<"a">>]},
                                  "fecha_nacimiento", AgeBirthdates), "edad", AgeAges)] :
               patients = [i \in 1..k |-> sh[i] @@ ("id_paciente" :> i)]
    /\ appointments = <<>>
    /\ report = NoReport
    /\ ServerIdle

AuditAges ==
    /\ \E cutoff_date \in AgeCutoffs :
           report' = AgeConsistencyReport(patients, cutoff_date)
    /\ UNCHANGED <<appointments, patients, server>>

AgeNext == AuditAges

SpecAge == AgeInit /\ [][AgeNext]_vars

\* Whether n whole years have passed from birth to cutoff: the n-th
\* anniversary of the birth date is not after the cutoff date.
C4_YearsPassed(birth, cutoff, n) ==
    ~KeyLess(cutoff, <<birth[1] + n, birth[2], birth[3]>>)

\* The number of whole years between a birth date and a cutoff date that is
\* not before it.
C4_WholeYears(birth, cutoff) ==
    CHOOSE n \in 0..(cutoff[1] - birth[1]) :
        /\ C4_YearsPassed(birth, cutoff, n)
        /\ ~C4_YearsPassed(birth, cutoff, n + 1)

\* The log has, for patient r, exactly one entry, an imputed_age whose
\* edad_calculada is age.
C4_Imputed(r, age) ==
    /\ Cardinality({k \in 1..Len(report.log_entries) :
           report.log_entries[k].id_paciente = r.id_paciente}) = 1
    /\ \E e \in Range(report.log_entries) :
           /\ e.id_paciente = r.id_paciente
           /\ e.action = "imputed_age"
           /\ e.edad_calculada = age

\* C4 as stated: every patient without an edad and with a fecha_nacimiento
\* has an imputed_age entry with the whole years from the birth date to the
\* cutoff date, and is counted in imputations.
C4_ImputesWhenBirthdatePresent ==
    report.service = "age_consistency" =>
        LET S == {r \in Range(patients) :
                     ~Has(r, "edad") /\ Has(r, "fecha_nacimiento") /\ r.fecha_nacimiento # <<>>}
        IN  /\ report.imputations = Cardinality(S)
            /\ \A r \in S :
                   \E e \in Range(report.log_entries) :
                       /\ e.id_paciente = r.id_paciente
                       /\ e.action = "imputed_age"
                       /\ (IsIsoDate(r.fecha_nacimiento)
                              /\ ~KeyLess(report.cutoff_date, r.fecha_nacimiento))
                            => e.edad_calculada
                                 = C4_WholeYears(r.fecha_nacimiento, report.cutoff_date)

\* C4 as amended: every patient without an edad whose fecha_nacimiento is a
\* valid ISO date has exactly one log entry, an imputed_age whose
\* edad_calculada is the number of whole years from the birth date to the
\* cutoff date, or 0 when the birth date is after the cutoff date; those
\* patients are the ones imputations counts.
C4_ImputesWhenBirthdateValid ==
    report.service = "age_consistency" =>
        LET S == {r \in Range(patients) :
                     /\ ~Has(r, "edad")
                     /\ Has(r, "fecha_nacimiento")
                     /\ r.fecha_nacimiento # <<>>
                     /\ IsIsoDate(r.fecha_nacimiento)}
        IN  /\ report.imputations = Cardinality(S)
            /\ \A r \in S :
                   C4_Imputed(r, IF KeyLess(report.cutoff_date, r.fecha_nacimiento) THEN 0
                                 ELSE C4_WholeYears(r.fecha_nacimiento, report.cutoff_date))

\* An audit, the day before the 25th anniversary of a 29 February, that
\* imputes 24 years to one patient and leaves another, whose birth date is
\* no date, without an age.
C4_Witness ==
    /\ report.service = "age_consistency"
    /\ report.cutoff_date = <<2025, 2, 28>>
    /\ report.imputations = 1
    /\ report.missing_birthdate_records = 1
    /\ \E e \in Range(report.log_entries) :
           /\ e.action = "imputed_age"
           /\ e.fecha_nacimiento = <<2000, 2, 29>>
           /\ e.edad_calculada = 24
    /\ \E e \in Range(report.log_entries) :
           e.action = "invalid_birthdate" /\ ~Has(e, "edad_registrada")

(***************************************************************************)
(* TextNormalizationService._normalize_text                                *)
(***************************************************************************)
CombiningChars == {"^"}

\* unicodedata.normalize("NFKD", ch): a precomposed letter becomes its base
\* letter followed by the combining accent.
NfkdChar(ch) ==
    CASE ch = "a^" -> <<"a", "^">>
      [] ch = "A^" -> <<"A", "^">>
      [] OTHER -> <<ch>>

RECURSIVE Nfkd(_)
Nfkd(s) == IF s = <<>> THEN <<>> ELSE NfkdChar(Head(s)) \o Nfkd(Tail(s))

\* "".join(ch for ch in s if not unicodedata.combining(ch))
DropCombining(s) == SelectSeq(s, LAMBDA ch : ch \notin CombiningChars)

\* The last two lines of _normalize_text: decompose, then drop the accents.
WithoutTildesMutant(cleaned) == Nfkd(DropCombining(cleaned))

WithoutTildes(cleaned) == DropCombining(Nfkd(cleaned))

\* _normalize_text for a value that is not None.
NormalizeText(value) == WithoutTildes(Lower(Strip(JoinSplit(value))))

MaxTextLen == 3
TextChars == {"a", "A", "a^", "A^", "^", " ", "\t"}

\* The strings of letters, plain or accented, precomposed or followed by
\* their combining accent, and whitespace: an accent follows a letter or
\* another accent.
TextInputs ==
    {s \in SeqUpTo(TextChars, MaxTextLen) :
        \A i \in 1..Len(s) :
            s[i] \in CombiningChars => (i > 1 /\ ~IsSpace(s[i - 1]))}

NormTextInit ==
    /\ patients = <<>>
    /\ appointments = <<>>
    /\ report = NoReport
    /\ ServerIdle

\* A call of _normalize_text(value).
NormalizeTextCall ==
    /\ \E value \in TextInputs :
           report' = [service |-> "_normalize_text", value |-> value,
                      result |-> NormalizeText(value)]
    /\ UNCHANGED <<appointments, patients, server>>

\* A call of _normalize_text on what the last call returned.
NormalizeTextAgain ==
    /\ report.service = "_normalize_text"
    /\ report' = [service |-> "_normalize_text", value |-> report.result,
                  result |-> NormalizeText(report.result)]
    /\ UNCHANGED <<appointments, patients, server>>

NormTextNext == NormalizeTextCall \/ NormalizeTextAgain

SpecNormText == NormTextInit /\ [][NormTextNext]_vars

SinCiudad == <<"sin_ciudad">>

FIELDS_TO_CHECK == <<"email", "telefono", "ciudad">>

\* "if not value" for a field of a record, a mutation of which tests only
\* for None.
MissingValueMutant(record, field) == ~Has(record, field)

MissingValue(record, field) == ~Truthy(record, field)

\* record.ciudad or "sin_ciudad"
CityOf(record) == IF Truthy(record, "ciudad") THEN record.ciudad ELSE SinCiudad

\* The distinct elements of keys in the order of their first appearance:
\* the key order of a dict filled while iterating over keys.
FirstSeen(keys) ==
    Pick(keys, AscSeq({i \in 1..Len(keys) : \A j \in 1..(i - 1) : keys[j] # keys[i]}))

\* round(num / den * 100, 2) in hundredths: the nearest hundredth, and the
\* even one when two are equally near.
Round2(num, den) ==
    LET q == (num * 10000) \div den
        rem == (num * 10000) % den
    IN  IF 2 * rem < den THEN q
        ELSE IF 2 * rem > den THEN q + 1
        ELSE IF q % 2 = 0 THEN q ELSE q + 1

\* The [total, missed] counters of a defaultdict filled in one pass over the
\* records: one entry per key, in order of first appearance.
CountByKey(records, keys, field) ==
    LET order == FirstSeen(keys)
    IN  [k \in 1..Len(order) |->
            [key |-> order[k],
             total |-> Cardinality({i \in 1..Len(records) : keys[i] = order[k]}),
             missed |-> Cardinality({i \in 1..Len(records) :
                            keys[i] = order[k] /\ MissingValue(records[i], field)})]]

CityKeys(records) == [i \in 1..Len(records) |-> CityOf(records[i])]

CategoryKeys(records) == [i \in 1..Len(records) |-> records[i].categoria]

\* The dict comprehensions of _metric_for_field: key -> rounded percentage.
PercentByKey(counters) ==
    [key \in {counters[k].key : k \in 1..Len(counters)} |->
        LET c == CHOOSE c \in Range(counters) : c.key = key
        IN  Round2(c.missed, c.total)]

\* _metric_for_field; completeness is the pair <<present, total>> of the
\* fraction 1 - missing / total, and <<0, 1>> for no records.
MetricForField(records, field) ==
    LET total == Len(records)
        missing == Cardinality({i \in 1..Len(records) : MissingValue(records[i], field)})
    IN  [field |-> field,
         total |-> total,
         missing |-> missing,
         completeness |-> IF total # 0 THEN <<total - missing, total>> ELSE <<0, 1>>,
         per_city_missing |-> PercentByKey(CountByKey(records, CityKeys(records), field)),
         per_category_missing |->
             PercentByKey(CountByKey(records, CategoryKeys(records), field))]

\* _compute_ratios: per city (total, missed, missed / total).
ComputeRatios(records, field) == CountByKey(records, CityKeys(records), field)

\* The order of sorted(..., key=ratio, reverse=True) between an entry and
\* one that follows it in the input: the earlier one stays first unless its
\* ratio is smaller. A mutation sorts ascending.
RatioOutOfOrderMutant(earlier, later) ==
    earlier.missed * later.total > later.missed * earlier.total

RatioOutOfOrder(earlier, later) ==
    earlier.missed * later.total < later.missed * earlier.total

RECURSIVE InsertByRatio(_, _)
InsertByRatio(x, s) ==
    IF s = <<>> THEN <<x>>
    ELSE IF RatioOutOfOrder(Head(s), x) THEN <<x>> \o s
    ELSE <<Head(s)>> \o InsertByRatio(x, Tail(s))

\* sorted(stats.items(), key=lambda item: item[1][2], reverse=True)
RECURSIVE SortByRatio(_)
SortByRatio(s) ==
    IF s = <<>> THEN <<>>
    ELSE InsertByRatio(s[Len(s)], SortByRatio(SubSeq(s, 1, Len(s) - 1)))

\* _plan_for_email: the strategy text names candidates[0] and its rounded
\* percentage. stats is not empty.
PlanForEmail(stats) ==
    LET candidates == SortByRatio(stats)
    IN  [field |-> "email", city |-> candidates[1].key,
         percent |-> Round2(candidates[1].missed, candidates[1].total)]

\* _plan_for_phone: the strategy text names candidates[0].
PlanForPhone(stats) ==
    LET candidates == SortByRatio(stats)
    IN  [field |-> "telefono", city |-> candidates[1].key]

\* _plan_for_city: max(...) over the categories returns the first one, in
\* order of first appearance, whose ratio of records without city no other
\* exceeds.
PlanForCity(records) ==
    LET category_missing == CountByKey(records, CategoryKeys(records), "ciudad")
        top == CHOOSE k \in 1..Len(category_missing) :
                   /\ \A j \in 1..Len(category_missing) :
                          ~RatioOutOfOrder(category_missing[k], category_missing[j])
                   /\ \A j \in 1..(k - 1) :
                          RatioOutOfOrder(category_missing[j], category_missing[k])
    IN  [field |-> "ciudad", category |-> category_missing[top].key]

\* CityCategoryImputer.suggest: candidates[0] of an empty list raises
\* IndexError.
Suggest(records) ==
    IF records = <<>> THEN [raised |-> "IndexError"]
    ELSE [plans |-> <<PlanForEmail(ComputeRatios(records, "email")),
                      PlanForPhone(ComputeRatios(records, "telefono")),
                      PlanForCity(records)>>]

\* CompletenessService.evaluate with the CityCategoryImputer.
Evaluate(records) ==
    LET metrics == [k \in 1..Len(FIELDS_TO_CHECK) |->
                        MetricForField(records, FIELDS_TO_CHECK[k])]
        plan == Suggest(records)
    IN  IF Has(plan, "raised") THEN [service |-> "evaluate", raised |-> plan.raised]
        ELSE [service |-> "evaluate", metrics |-> metrics, plan |-> plan.plans]

MaxComplPatients == 3

\* The patients: a field is None (absent), "" or a value; two cities, no
\* city, and "sin_ciudad" given as a city.
ComplShapes ==
    {r @@ ("ciudad" :> c) :
        r \in WithOpt(WithOpt({[nombre |-> <<"a">>, categoria |-> "adult"]},
                 "email", {<<"e">>}), "telefono", {<<"t">>}),
        c \in {<<"B">>, <<"M">>}}
    \cup {[nombre |-> <<"a">>, categoria |-> "adult"],
          [nombre |-> <<"a">>, categoria |-> "child", email |-> <<>>,
           telefono |-> <<"t">>, ciudad |-> <<>>],
          [nombre |-> <<"a">>, categoria |-> "child", email |-> <<"e">>,
           ciudad |-> SinCiudad],
          [nombre |-> <<"a">>, categoria |-> "child", telefono |-> <<>>,
           ciudad |-> <<"B">>]}

ComplInit ==
    /\ \E k \in 0..MaxComplPatients : \E sh \in [1..k -> ComplShapes] :
           patients = [i \in 1..k |-> sh[i] @@ ("id_paciente" :> i)]
    /\ appointments = <<>>
    /\ report = NoReport
    /\ ServerIdle

ComplEvaluate ==
    /\ report' = Evaluate(patients)
    /\ UNCHANGED <<appointments, patients, server>>

ComplSuggest ==
    /\ report' = [service |-> "suggest"] @@ Suggest(patients)
    /\ UNCHANGED <<appointments, patients, server>>

ComplNext == ComplEvaluate \/ ComplSuggest

SpecCompl == ComplInit /\ [][ComplNext]_vars

C6_Empty(r, f) == ~Has(r, f) \/ r[f] = <<>>

C6_City(r) == IF C6_Empty(r, "ciudad") THEN <<"sin_ciudad">> ELSE r.ciudad

C6_InCity(city) == {i \in 1..Len(patients) : C6_City(patients[i]) = city}

C6_EmptyIn(S, f) == {i \in S : C6_Empty(patients[i], f)}

\* C6: in every metric of evaluate, total is the number of patients, missing
\* the number of patients whose field is None or "", and per_city_missing
\* has one entry per city of the patients, 'sin_ciudad' standing for no
\* city: the percentage of the city's patients whose field is empty, to the
\* nearest hundredth, 0.0 when none is and 100.0 when all are.
C6_MetricsCountEmptyFields ==
    (report.service = "evaluate" /\ Has(report, "metrics")) =>
        /\ Len(report.metrics) = 3
        /\ \A k \in 1..3 :
            LET f == <<"email", "telefono", "ciudad">>[k]
                m == report.metrics[k]
            IN  /\ m.field = f
                /\ m.total = Len(patients)
                /\ m.missing = Cardinality(C6_EmptyIn(1..Len(patients), f))
                /\ DOMAIN m.per_city_missing =
                       {C6_City(patients[i]) : i \in 1..Len(patients)}
                /\ \A city \in DOMAIN m.per_city_missing :
                       LET T == Cardinality(C6_InCity(city))
                           M == Cardinality(C6_EmptyIn(C6_InCity(city), f))
                           pct == m.per_city_missing[city]
                       IN  /\ 2 * Abs(pct * T - M * 10000) <= T
                           /\ M = 0 => pct = 0
                           /\ M = T => pct = 10000

\* An evaluation with a city where email is always present, one where it is
\* always empty, and a patient without city whose email is the empty
\* string.
C6_Witness ==
    /\ report.service = "evaluate" /\ Has(report, "metrics")
    /\ Len(patients) = 3
    /\ report.metrics[1].missing = 2
    /\ <<"B">> \in DOMAIN report.metrics[1].per_city_missing
    /\ report.metrics[1].per_city_missing[<<"B">>] = 0
    /\ <<"M">> \in DOMAIN report.metrics[1].per_city_missing
    /\ report.metrics[1].per_city_missing[<<"M">>] = 10000
    /\ \E i \in 1..3 :
           /\ Has(patients[i], "ciudad") /\ patients[i].ciudad = <<>>
           /\ Has(patients[i], "email") /\ patients[i].email = <<>>

C7_Cities == {C6_City(patients[i]) : i \in 1..Len(patients)}

\* missing / total of city c is at least that of city d.
C7_RatioAtLeast(c, d, f) ==
    Cardinality(C6_EmptyIn(C6_InCity(c), f)) * Cardinality(C6_InCity(d))
        >= Cardinality(C6_EmptyIn(C6_InCity(d), f)) * Cardinality(C6_InCity(c))

\* C7: for a non-empty patient list, the city of the email plan of suggest
\* is a city of the patients whose ratio of patients without email no other
\* city exceeds, and the city of the phone plan likewise for telefono.
C7_PlanNamesCityOfHighestRatio ==
    (report.service = "suggest" /\ patients # <<>>) =>
        /\ Has(report, "plans")
        /\ report.plans[1].field = "email"
        /\ report.plans[1].city \in C7_Cities
        /\ \A d \in C7_Cities : C7_RatioAtLeast(report.plans[1].city, d, "email")
        /\ report.plans[2].field = "telefono"
        /\ report.plans[2].city \in C7_Cities
        /\ \A d \in C7_Cities : C7_RatioAtLeast(report.plans[2].city, d, "telefono")

\* A suggestion over two cities of different ratios, where the highest is
\* not the first city of the list and differs between email and telefono.
C7_Witness ==
    /\ report.service = "suggest" /\ Has(report, "plans")
    /\ Len(patients) = 3
    /\ C6_City(patients[1]) = <<"B">>
    /\ report.plans[1].city = <<"M">>
    /\ report.plans[2].city = <<"B">>
    /\ \E d \in C7_Cities : ~C7_RatioAtLeast(d, <<"M">>, "email")

(***************************************************************************)
(* backend/app.py: the HTTP facade                                         *)
(*                                                                         *)
(* A request path is the sequence of its segments and a segment is a str;  *)
(* the words of the routes, the report names and the case names are        *)
(* written as one token (<<"reports">>), a script key character by         *)
(* character. The content of the dataset file is a record: its kind        *)
(* ("empty" for no bytes, "text" for bytes that are not JSON, "array" for  *)
(* a JSON document that is not an object, "object") and, for an object,    *)
(* the tables it has. Sync endpoints run on worker threads and the         *)
(* async upload_dataset on the event loop, so the handlers interleave at   *)
(* their reads and writes of the file.                                     *)
(***************************************************************************)
EmptyBytes == [kind |-> "empty"]

NotJson == [kind |-> "text"]

JsonArray == [kind |-> "array"]

EmptyObject == [kind |-> "object"]

\* The table payload.get(key, []) yields for a missing key.
EmptyTable == "[]"

\* json.load(stream) of the file: JSONDecodeError, a ValueError, unless the
\* content is a JSON document.
JsonLoad(content) ==
    IF content.kind \in {"empty", "text"} THEN [raised |-> "ValueError"]
    ELSE [payload |-> content]

\* A mutation of the repositories that answers from the table the last
\* response was computed from, when there is one.
ListTableMutant(content, dataset_key) ==
    IF report.service = "http" /\ Has(report, dataset_key)
    THEN [table |-> report[dataset_key]]
    ELSE IF content.kind \in {"empty", "text"} THEN [raised |-> "ValueError"]
    ELSE IF content.kind # "object" THEN [raised |-> "AttributeError"]
    ELSE [table |-> IF Has(content, dataset_key) THEN content[dataset_key]
                    ELSE EmptyTable]

\* JsonPatientRepository.list_patients and
\* JsonAppointmentRepository.list_appointments: open the file, json.load
\* it, payload.get(dataset_key, []).
ListTable(content, dataset_key) ==
    LET loaded == JsonLoad(content)
    IN  IF Has(loaded, "raised") THEN loaded
        ELSE IF loaded.payload.kind # "object" THEN [raised |-> "AttributeError"]
        ELSE [table |-> IF Has(loaded.payload, dataset_key)
                        THEN loaded.payload[dataset_key] ELSE EmptyTable]

\* ETLPipelineService.extract: one json.load, then both tables.
Extract(content) ==
    LET loaded == JsonLoad(content)
    IN  IF Has(loaded, "raised") THEN loaded
        ELSE IF loaded.payload.kind # "object" THEN [raised |-> "AttributeError"]
        ELSE [pacientes |-> IF Has(loaded.payload, "pacientes")
                            THEN loaded.payload.pacientes ELSE EmptyTable,
              citas_medicas |-> IF Has(loaded.payload, "citas_medicas")
                                THEN loaded.payload.citas_medicas ELSE EmptyTable]

\* A file under REPORT_DIR.
ReportFile(dir, name, ext) == [dir |-> dir, name |-> name, ext |-> ext]

\* _get_json_path(name)
GetJsonPath(name) == ReportFile("reports", name, "json")

\* REPORT_DIR / f"{name}.html"
GetHtmlPath(name) == ReportFile("reports", name, "html")

\* What ETLPipelineService.load and _persist_metrics write.
EtlOutputs ==
    {ReportFile("reports/etl", <<"pacientes_cleaned">>, "csv"),
     ReportFile("reports/etl", <<"citas_cleaned">>, "csv"),
     ReportFile("reports/etl", <<"etl_metrics">>, "json")}

\* The scripts directory: one use-case script, run_a_b.py, whose main()
\* lists the patients and writes a JSON log and an HTML summary.
ScriptStems == {<<"r", "u", "n", "_", "a", "_", "b">>}

ScriptOutputs == {GetJsonPath(<<"log">>), GetHtmlPath(<<"summary">>)}

SCRIPT_PREFIX == <<"r", "u", "n", "_">>

StartsWith(s, prefix) ==
    Len(s) >= Len(prefix) /\ SubSeq(s, 1, Len(prefix)) = prefix

RemovePrefix(s) ==
    IF StartsWith(s, SCRIPT_PREFIX) THEN SubSeq(s, Len(SCRIPT_PREFIX) + 1, Len(s))
    ELSE s

\* _discover_scripts: the registry key of each scripts/run_*.py.
SCRIPT_REGISTRY == {Lower(RemovePrefix(stem)) : stem \in ScriptStems}

\* script_key.replace("-", "_")
ReplaceDash(s) == [i \in 1..Len(s) |-> IF s[i] = "-" THEN "_" ELSE s[i]]

\* _normalize_script_key
NormalizeScriptKey(script_key) == RemovePrefix(Lower(Strip(ReplaceDash(script_key))))

\* _resolve_script: the descriptor, or 404.
ResolveScript(script_key) ==
    IF NormalizeScriptKey(script_key) \in SCRIPT_REGISTRY
    THEN [key |-> NormalizeScriptKey(script_key)]
    ELSE [status_code |-> 404, detail |-> "Script not found"]

TwoRepositoryCases == {<<"doctor-notifications">>, <<"patient-travel">>}

AppointmentCases == {<<"doctor-utilization">>, <<"management-kpis">>}

EtlCase == <<"etl">>

\* The cases _service_runner knows.
BuiltInCases == TwoRepositoryCases \cup AppointmentCases \cup {EtlCase}

\* post_run: a ValueError becomes 404, any other exception is answered 500
\* by the framework. A mutation answers 500 for both.
PostRunStatusMutant(raised) == 500

PostRunStatus(raised) == IF raised = "ValueError" THEN 404 ELSE 500

\* upload_dataset: the status its checks lead to. A mutation leaves the
\* check of the content out.
UploadStatusMutant(content_type, content) ==
    IF content_type # "application/json" THEN 415 ELSE 200

UploadStatus(content_type, content) ==
    IF content_type # "application/json" THEN 415
    ELSE IF content = EmptyBytes THEN 400
    ELSE 200

\* A path parameter of a route.
Param == <<"{}">>

Route(method, path, endpoint) == [method |-> method, path |-> path, endpoint |-> endpoint]

\* The routes in the order app.py registers them.
Routes ==
    <<Route("GET", <<(<<"health">>)>>, "health"),
      Route("GET", <<(<<"reports">>)>>, "list_reports"),
      Route("GET", <<(<<"reports">>), (<<"html">>)>>, "list_html_reports"),
      Route("GET", <<(<<"reports">>), Param>>, "get_report"),
      Route("GET", <<(<<"reports">>), Param, (<<"html">>)>>, "get_report_html"),
      Route("POST", <<(<<"run">>), Param>>, "post_run"),
      Route("POST", <<(<<"dataset">>), (<<"upload">>)>>, "upload_dataset"),
      Route("GET", <<(<<"scripts">>)>>, "list_scripts"),
      Route("GET", <<(<<"scripts">>), Param>>, "get_script"),
      Route("POST", <<(<<"scripts">>), Param, (<<"run">>)>>, "run_script")>>

PathMatches(pattern, path) ==
    /\ Len(pattern) = Len(path)
    /\ \A i \in 1..Len(pattern) : pattern[i] = Param \/ pattern[i] = path[i]

\* The router: the first route that matches path and method; failing that
\* 405 when a route matches the path, else 404.
Dispatch(method, path) ==
    LET full == {k \in 1..Len(Routes) :
                    PathMatches(Routes[k].path, path) /\ Routes[k].method = method}
    IN  IF full # {} THEN Routes[CHOOSE k \in full : \A j \in full : k <= j].endpoint
        ELSE IF \E k \in 1..Len(Routes) : PathMatches(Routes[k].path, path)
        THEN "method_not_allowed"
        ELSE "not_found"

\* The path parameter: every route that has one has it second.
PathParameter(path) == path[2]

Response(method, path, endpoint, status_code) ==
    [service |-> "http", method |-> method, path |-> path,
     endpoint |-> endpoint, status_code |-> status_code]

UploadPath == <<(<<"dataset">>), (<<"upload">>)>>

MaxRuns == 1

ReportNames == {<<"log">>, <<"summary">>, <<"html">>}

ScriptKeys ==
    {<<"a", "_", "b">>, <<" ", "r", "u", "n", "-", "A", "-", "B">>,
     <<"a">>, <<"r", "u", "n", "_">>}

RequestCases == BuiltInCases \cup {<<"completeness">>}

\* The requests of the clients, the uploads apart.
HttpRequests ==
    {[method |-> "GET", path |-> <<(<<"health">>)>>],
     [method |-> "GET", path |-> <<(<<"reports">>)>>],
     [method |-> "GET", path |-> <<(<<"scripts">>)>>],
     [method |-> "POST", path |-> <<(<<"reports">>)>>],
     [method |-> "GET", path |-> <<(<<"datasets">>)>>]}
    \cup {[method |-> "GET", path |-> <<(<<"reports">>), name>>] : name \in ReportNames}
    \cup {[method |-> "GET", path |-> <<(<<"reports">>), name, (<<"html">>)>>] :
             name \in ReportNames}
    \cup {[method |-> "GET", path |-> <<(<<"scripts">>), key>>] : key \in ScriptKeys}
    \cup {[method |-> "POST", path |-> <<(<<"scripts">>), key, (<<"run">>)>>] :
             key \in ScriptKeys}
    \cup {[method |-> "POST", path |-> <<(<<"run">>), case>>] : case \in RequestCases}

ContentTypes == {"application/json", "text/plain", "application/json; charset=utf-8"}

UploadContents ==
    {EmptyBytes, NotJson, JsonArray, EmptyObject,
     DatasetDoc("P1", "C1"), DatasetDoc("P2", "C2")}

HttpInit ==
    /\ patients = <<>>
    /\ appointments = <<>>
    /\ report = NoReport
    /\ ServerIdle

\* A handler that answers without touching a file.
Answer(response) ==
    /\ report' = response
    /\ UNCHANGED <<appointments, patients, server>>

Health(method, path) ==
    /\ Dispatch(method, path) = "health"
    /\ Answer(Response(method, path, "health", 200))

NotFound(method, path) ==
    /\ Dispatch(method, path) = "not_found"
    /\ Answer(Response(method, path, "not_found", 404))

MethodNotAllowed(method, path) ==
    /\ Dispatch(method, path) = "method_not_allowed"
    /\ Answer(Response(method, path, "method_not_allowed", 405))

ListReports(method, path) ==
    /\ Dispatch(method, path) = "list_reports"
    /\ Answer(Response(method, path, "list_reports", 200) @@
              [reports |-> {f \in reportFiles : f.dir = "reports" /\ f.ext = "json"}])

ListHtmlReports(method, path) ==
    /\ Dispatch(method, path) = "list_html_reports"
    /\ Answer(Response(method, path, "list_html_reports", 200) @@
              [html_reports |-> {f \in reportFiles : f.dir = "reports" /\ f.ext = "html"}])

GetReport(method, path) ==
    /\ Dispatch(method, path) = "get_report"
    /\ Answer(IF GetJsonPath(PathParameter(path)) \notin reportFiles
              THEN Response(method, path, "get_report", 404) @@
                   [detail |-> "Report not found"]
              ELSE Response(method, path, "get_report", 200))

GetReportHtml(method, path) ==
    /\ Dispatch(method, path) = "get_report_html"
    /\ Answer(IF GetHtmlPath(PathParameter(path)) \notin reportFiles
              THEN Response(method, path, "get_report_html", 404) @@
                   [detail |-> "HTML report not found"]
              ELSE Response(method, path, "get_report_html", 200))

ListScripts(method, path) ==
    /\ Dispatch(method, path) = "list_scripts"
    /\ Answer(Response(method, path, "list_scripts", 200) @@ [keys |-> SCRIPT_REGISTRY])

GetScript(method, path) ==
    /\ Dispatch(method, path) = "get_script"
    /\ LET descriptor == ResolveScript(PathParameter(path))
       IN  Answer(IF Has(descriptor, "status_code")
                  THEN Response(method, path, "get_script", descriptor.status_code) @@
                       [detail |-> descriptor.detail]
                  ELSE Response(method, path, "get_script", 200) @@
                       [key |-> descriptor.key])

\* run_script: main() of the script lists the patients of the dataset and
\* writes its reports; an exception of main() is answered 500.
RunScript(method, path) ==
    /\ Dispatch(method, path) = "run_script"
    /\ LET descriptor == ResolveScript(PathParameter(path))
           listed == ListTable(dataset, "pacientes")
       IN  IF Has(descriptor, "status_code")
           THEN Answer(Response(method, path, "run_script", descriptor.status_code) @@
                       [detail |-> descriptor.detail])
           ELSE IF Has(listed, "raised")
           THEN Answer(Response(method, path, "run_script", 500) @@
                       [key |-> descriptor.key])
           ELSE /\ reportFiles' = reportFiles \cup ScriptOutputs
                /\ report' = Response(method, path, "run_script", 200) @@
                             [key |-> descriptor.key, pacientes |-> listed.table]
                /\ UNCHANGED <<appointments, patients, dataset, uploading, runs>>

RunFailed(method, path, raised) ==
    Response(method, path, "post_run", PostRunStatus(raised)) @@ [raised |-> raised]

\* post_run, up to the answer or, for a service with two repositories, up
\* to its list of patients.
PostRun(method, path) ==
    /\ Dispatch(method, path) = "post_run"
    /\ LET case == PathParameter(path)
       IN  CASE case \in TwoRepositoryCases ->
                    LET listed == ListTable(dataset, "pacientes")
                    IN  /\ BagCardinality(runs) < MaxRuns
                        /\ IF Has(listed, "raised")
                           THEN Answer(RunFailed(method, path, listed.raised))
                           ELSE /\ runs' = runs (+) SetToBag({[method |-> method,
                                              path |-> path, pacientes |-> listed.table]})
                                /\ UNCHANGED <<appointments, patients, report,
                                               dataset, reportFiles, uploading>>
             [] case \in AppointmentCases ->
                    LET listed == ListTable(dataset, "citas_medicas")
                    IN  Answer(IF Has(listed, "raised")
                               THEN RunFailed(method, path, listed.raised)
                               ELSE Response(method, path, "post_run", 200) @@
                                    [citas_medicas |-> listed.table])
             [] case = EtlCase ->
                    LET extracted == Extract(dataset)
                    IN  IF Has(extracted, "raised")
                        THEN Answer(RunFailed(method, path, extracted.raised))
                        ELSE /\ reportFiles' = reportFiles \cup EtlOutputs
                             /\ report' = Response(method, path, "post_run", 200) @@
                                          extracted
                             /\ UNCHANGED <<appointments, patients, dataset,
                                            uploading, runs>>
             [] OTHER -> Answer(RunFailed(method, path, "ValueError"))

\* post_run of a service with two repositories, from its list of
\* appointments to the answer.
PostRunAppointments(run) ==
    /\ run \in BagToSet(runs)
    /\ runs' = runs (-) SetToBag({run})
    /\ LET listed == ListTable(dataset, "citas_medicas")
       IN  report' = IF Has(listed, "raised")
                     THEN RunFailed(run.method, run.path, listed.raised)
                     ELSE Response(run.method, run.path, "post_run", 200) @@
                          [pacientes |-> run.pacientes, citas_medicas |-> listed.table]
    /\ UNCHANGED <<appointments, patients, dataset, reportFiles, uploading>>

UploadResponse(content_type, content, status_code) ==
    Response("POST", UploadPath, "upload_dataset", status_code) @@
    [content_type |-> content_type, content |-> content]

\* A mutation that holds a lock on the dataset file for the length of a run:
\* no upload starts while a run is between its two reads.
UploadDatasetMutant(content_type, content) ==
    /\ runs = EmptyBag
    /\ Dispatch("POST", UploadPath) = "upload_dataset"
    /\ ~uploading.active
    /\ IF UploadStatus(content_type, content) # 200
       THEN Answer(UploadResponse(content_type, content,
                                  UploadStatus(content_type, content)))
       ELSE /\ dataset' = EmptyBytes
            /\ uploading' = [active |-> TRUE, content_type |-> content_type,
                             content |-> content]
            /\ UNCHANGED <<appointments, patients, report, reportFiles, runs>>

\* upload_dataset up to the opening of the dataset file for writing, which
\* truncates it, or up to the answer of a rejected upload.
UploadDataset(content_type, content) ==
    /\ Dispatch("POST", UploadPath) = "upload_dataset"
    /\ ~uploading.active
    /\ IF UploadStatus(content_type, content) # 200
       THEN Answer(UploadResponse(content_type, content,
                                  UploadStatus(content_type, content)))
       ELSE /\ dataset' = EmptyBytes
            /\ uploading' = [active |-> TRUE, content_type |-> content_type,
                             content |-> content]
            /\ UNCHANGED <<appointments, patients, report, reportFiles, runs>>

\* upload_dataset from the write of the content to the answer.
UploadWrite ==
    /\ uploading.active
    /\ dataset' = uploading.content
    /\ uploading' = NoUpload
    /\ report' = UploadResponse(uploading.content_type, uploading.content, 200)
    /\ UNCHANGED <<appointments, patients, reportFiles, runs>>

\* The requests the router hands to each endpoint.
RequestsOf ==
    [endpoint \in {Routes[k].endpoint : k \in 1..Len(Routes)}
                  \cup {"not_found", "method_not_allowed"} |->
        {req \in HttpRequests : Dispatch(req.method, req.path) = endpoint}]

HttpNext ==
    \/ \E req \in RequestsOf["health"] : Health(req.method, req.path)
    \/ \E req \in RequestsOf["not_found"] : NotFound(req.method, req.path)
    \/ \E req \in RequestsOf["method_not_allowed"] :
           MethodNotAllowed(req.method, req.path)
    \/ \E req \in RequestsOf["list_reports"] : ListReports(req.method, req.path)
    \/ \E req \in RequestsOf["list_html_reports"] : ListHtmlReports(req.method, req.path)
    \/ \E req \in RequestsOf["get_report"] : GetReport(req.method, req.path)
    \/ \E req \in RequestsOf["get_report_html"] : GetReportHtml(req.method, req.path)
    \/ \E req \in RequestsOf["list_scripts"] : ListScripts(req.method, req.path)
    \/ \E req \in RequestsOf["get_script"] : GetScript(req.method, req.path)
    \/ \E req \in RequestsOf["run_script"] : RunScript(req.method, req.path)
    \/ \E req \in RequestsOf["post_run"] : PostRun(req.method, req.path)
    \/ \E run \in BagToSet(runs) : PostRunAppointments(run)
    \/ \E content_type \in ContentTypes, content \in UploadContents :
           UploadDataset(content_type, content)
    \/ UploadWrite

SpecHttp == HttpInit /\ [][HttpNext]_vars

C8_IsUploadAnswer(r) == r.service = "http" /\ r.endpoint = "upload_dataset"

C8_Acceptable(upload) == upload.content_type = "application/json" /\ upload.content.kind # "empty"

\* C8: an upload whose content type is not application/json is answered
\* 415, one of that type with no content 400, both with the dataset file as
\* it was; the other uploads are answered 200 with their content in the
\* file. The file changes only in the steps of an upload of type
\* application/json with content: when it is opened for writing and when the
\* content is written.
C8_UploadReplacesOnlyJsonWithContent ==
    [][/\ ((report' # report \/ (uploading.active /\ ~uploading'.active))
           /\ C8_IsUploadAnswer(report')) =>
              IF report'.content_type # "application/json"
              THEN report'.status_code = 415 /\ dataset' = dataset
              ELSE IF report'.content.kind = "empty"
              THEN report'.status_code = 400 /\ dataset' = dataset
              ELSE report'.status_code = 200 /\ dataset' = report'.content
       /\ dataset' # dataset =>
              \/ ~uploading.active /\ uploading'.active /\ C8_Acceptable(uploading')
              \/ /\ uploading.active /\ ~uploading'.active /\ C8_Acceptable(uploading)
                 /\ dataset' = uploading.content
                 /\ C8_IsUploadAnswer(report') /\ report'.status_code = 200
                 /\ report'.content = uploading.content
      ]_vars

\* An empty upload answered 400 after an accepted upload: the file still
\* holds the accepted content.
C8_Witness ==
    /\ C8_IsUploadAnswer(report)
    /\ report.status_code = 400
    /\ dataset = DatasetDoc("P2", "C2")

\* The requests for an unknown name: a report whose file does not exist, a
\* script key that normalizes to no registered script, a case that is not
\* built in. AnyName tells whether "html" counts as a report name for
\* GET /reports/{name}.
C9_IsUnknownName(req, files, AnyName) ==
    \/ /\ req.method = "GET" /\ Len(req.path) = 2 /\ req.path[1] = <<"reports">>
       /\ AnyName \/ req.path[2] # <<"html">>
       /\ [dir |-> "reports", name |-> req.path[2], ext |-> "json"] \notin files
    \/ /\ req.method = "GET" /\ Len(req.path) = 3 /\ req.path[1] = <<"reports">>
       /\ req.path[3] = <<"html">>
       /\ [dir |-> "reports", name |-> req.path[2], ext |-> "html"] \notin files
    \/ /\ req.method = "GET" /\ Len(req.path) = 2 /\ req.path[1] = <<"scripts">>
       /\ NormalizeScriptKey(req.path[2]) \notin SCRIPT_REGISTRY
    \/ /\ req.method = "POST" /\ Len(req.path) = 3 /\ req.path[1] = <<"scripts">>
       /\ req.path[3] = <<"run">>
       /\ NormalizeScriptKey(req.path[2]) \notin SCRIPT_REGISTRY
    \/ /\ req.method = "POST" /\ Len(req.path) = 2 /\ req.path[1] = <<"run">>
       /\ req.path[2] \notin {<<"doctor-notifications">>, <<"doctor-utilization">>,
                              <<"patient-travel">>, <<"management-kpis">>, <<"etl">>}

C9_Answered404(AnyName) ==
    (report' # report /\ report'.service = "http"
        /\ C9_IsUnknownName(report', reportFiles, AnyName)) =>
        /\ report'.status_code = 404
        /\ dataset' = dataset
        /\ reportFiles' = reportFiles

\* C9 as stated: every request for an unknown name is answered 404 and
\* changes neither the dataset nor a report file.
C9_UnknownNamesAnswered404 == [][C9_Answered404(TRUE)]_vars

\* C9: every request for an unknown name, GET /reports/html apart, is
\* answered 404 and changes neither the dataset nor a report file.
C9_UnknownNamesButHtmlAnswered404 == [][C9_Answered404(FALSE)]_vars

\* A run of an unregistered script answered 404 with the reports of an
\* earlier script run in place.
C9_Witness ==
    /\ report.service = "http"
    /\ report.endpoint = "run_script"
    /\ report.status_code = 404
    /\ ScriptOutputs \subseteq reportFiles

\* The table a reader of the file gets.
C10_Table(content, key) ==
    IF content.kind # "object" THEN "unreadable"
    ELSE IF key \in DOMAIN content THEN content[key] ELSE "[]"

C10_IsRunAnswer(r) == r.service = "http" /\ r.endpoint = "post_run" /\ r.status_code = 200

\* The runs of a two-repository service that list their patients in this
\* step.
C10_Started == {r \in BagToSet(runs') : CopiesIn(r, runs') > CopiesIn(r, runs)}

\* What this step reads is read from content.
C10_ReadsFrom(content) ==
    /\ \A r \in C10_Started : r.pacientes = C10_Table(content, "pacientes")
    /\ (report' # report /\ C10_IsRunAnswer(report')) =>
           /\ report'.citas_medicas = C10_Table(content, "citas_medicas")
           /\ (runs' = runs /\ Has(report', "pacientes")) =>
                  report'.pacientes = C10_Table(content, "pacientes")

\* C10: every table a run lists is the table of the dataset file at that
\* moment; and once an upload has been answered 200 and no other upload is
\* writing, the tables a run lists are those of the uploaded content.
C10_RunsLoadTheDatasetAnew ==
    [][/\ C10_ReadsFrom(dataset)
       /\ (C8_IsUploadAnswer(report) /\ report.status_code = 200 /\ ~uploading.active) =>
              C10_ReadsFrom(report.content)
      ]_vars

\* A two-repository run answered from the tables of an uploaded dataset.
C10_Witness ==
    /\ C10_IsRunAnswer(report)
    /\ report.path[2] \in TwoRepositoryCases
    /\ report.pacientes = "P2"
    /\ report.citas_medicas = "C2"
    /\ dataset = DatasetDoc("P2", "C2")

\* C11: no lock protects the dataset file: while a run of a two-repository
\* service is between its list of patients and its list of appointments, an
\* upload can start and the upload that is writing can finish, and the run
\* can go on whatever the upload has done to the file.
C11_UploadsRaceWithRuns ==
    \A run \in BagToSet(runs) :
        /\ ~uploading.active =>
               ENABLED UploadDataset("application/json", DatasetDoc("P2", "C2"))
        /\ uploading.active => ENABLED UploadWrite
        /\ ENABLED PostRunAppointments(run)

\* The answer of a two-repository run whose patients come from the shipped
\* dataset and whose appointments come from the dataset uploaded meanwhile.
C11_Witness ==
    /\ C10_IsRunAnswer(report)
    /\ report.path[2] \in TwoRepositoryCases
    /\ report.pacientes = "P1"
    /\ report.citas_medicas = "C2"

\* C12: whenever no upload is writing, the dataset file is a JSON object
\* with the keys pacientes and citas_medicas.
C12_DatasetIsAlwaysADocument ==
    ~uploading.active =>
        /\ dataset.kind = "object"
        /\ {"pacientes", "citas_medicas"} \subseteq DOMAIN dataset

(***************************************************************************)
(* ETLPipelineService                                                      *)
(*                                                                         *)
(* A DataFrame is the sequence of its rows and a row is a record; a null   *)
(* cell (None, NaN, NaT) is a field absent from the row. The inputs give   *)
(* every patient an id_paciente. The text columns are represented by       *)
(* email (patients) and estado_cita (appointments); a Timestamp is the     *)
(* date tuple it was parsed from. A file written under report_dir / "etl"  *)
(* is its ReportFile with the content written. The clock is read at the    *)
(* start and at the end of a run.                                          *)
(***************************************************************************)
NotAvailable == <<"N/A">>

EmptyStr == <<>>

\* Series.fillna("") of the column named field
FillNa(row, field) == IF Has(row, field) THEN row[field] ELSE EmptyStr

\* _clean_patients
CleanPatients(df) ==
    IF df = <<>> THEN df
    ELSE [i \in 1..Len(df) |->
             [f \in DOMAIN df[i] \cup {"email"} |->
                 IF f = "email" THEN Lower(Strip(FillNa(df[i], "email")))
                 ELSE df[i][f]]]

\* pd.to_datetime(..., errors="coerce") of one cell: <<>> stands for NaT
ToDatetime(row) ==
    IF Has(row, "fecha_cita") /\ IsIsoDate(row.fecha_cita)
    THEN row.fecha_cita
    ELSE <<>>

\* _clean_appointments: the text is cleaned, the dates are parsed and the
\* rows whose date is NaT are dropped.
CleanAppointments(df) ==
    IF df = <<>> THEN df
    ELSE LET Dated(row) == ToDatetime(row) # <<>>
             Clean(row) ==
                 [f \in DOMAIN row \cup {"estado_cita"} |->
                     CASE f = "estado_cita" ->
                              Lower(Strip(FillNa(row, "estado_cita")))
                       [] f = "fecha_cita" -> ToDatetime(row)
                       [] OTHER -> row[f]]
             kept == SelectSeq(df, Dated)
         IN  [i \in 1..Len(kept) |-> Clean(kept[i])]

\* appointments_df["id_paciente"].isin(patients_df["id_paciente"]) of one
\* row
IsInPatients(row, patients_df) ==
    /\ Has(row, "id_paciente")
    /\ \E i \in 1..Len(patients_df) :
           patients_df[i].id_paciente = row.id_paciente

\* transform
Transform(records, citas) ==
    LET patients_df == CleanPatients(records)
        cleaned == CleanAppointments(citas)
        prune == patients_df # <<>> /\ cleaned # <<>>
        Orphan(row) == ~IsInPatients(row, patients_df)
        Known(row) == IsInPatients(row, patients_df)
        masked == IF prune THEN SelectSeq(cleaned, Orphan) ELSE <<>>
        orphan_ids == [i \in 1..Len(masked) |->
                          IF Has(masked[i], "id_cita") THEN masked[i].id_cita
                          ELSE NotAvailable]
    IN  [patients_df |-> patients_df,
         appointments_df |-> IF prune THEN SelectSeq(cleaned, Known)
                             ELSE cleaned,
         summary |-> [patients_raw |-> Len(records),
                      appointments_raw |-> Len(citas),
                      orphans |-> orphan_ids]]

\* A file under report_dir / "etl" and what was written to it.
EtlFile(name, ext, content) ==
    ReportFile("reports/etl", name, ext) @@ [content |-> content]

\* The files of that name and extension (none or one).
EtlFilesNamed(files, name, ext) ==
    {f \in files : f.dir = "reports/etl" /\ f.name = name /\ f.ext = ext}

\* Path.write_text / DataFrame.to_csv: the file is created or replaced.
WriteEtlFile(files, name, ext, content) ==
    (files \ EtlFilesNamed(files, name, ext)) \cup {EtlFile(name, ext, content)}

\* load and _write_table (the parquet copy holds the same rows or, without
\* a parquet engine, no text)
Load(files, patients_df, appointments_df) ==
    WriteEtlFile(WriteEtlFile(files, <<"pacientes_cleaned">>, "csv", patients_df),
                 <<"citas_cleaned">>, "csv", appointments_df)

\* The entries _persist_metrics reads back: etl_metrics.json is written by
\* _persist_metrics alone, so it holds a JSON list when it exists.
ExistingMetrics(files) ==
    LET found == EtlFilesNamed(files, <<"etl_metrics">>, "json")
    IN  IF found = {} THEN <<>> ELSE (CHOOSE f \in found : TRUE).content

MetricsEntry(summary) ==
    [start_time |-> summary.start_time,
     end_time |-> summary.end_time,
     duration_seconds |-> summary.duration_seconds,
     patients |-> summary.patients_exported,
     appointments |-> summary.appointments_exported,
     orphans |-> Len(summary.orphans)]

\* _persist_metrics writing the entry of this run alone.
PersistMetricsMutant(files, summary) ==
    WriteEtlFile(files, <<"etl_metrics">>, "json", <<MetricsEntry(summary)>>)

\* _persist_metrics
PersistMetrics(files, summary) ==
    WriteEtlFile(files, <<"etl_metrics">>, "json",
                 Append(ExistingMetrics(files), MetricsEntry(summary)))

\* run: the summary it returns and the files it leaves.
Run(files, records, citas, start, end) ==
    LET transformed == Transform(records, citas)
        summary == transformed.summary @@
                   [patients_exported |-> Len(transformed.patients_df),
                    appointments_exported |-> Len(transformed.appointments_df),
                    start_time |-> start,
                    end_time |-> end,
                    duration_seconds |-> end - start]
    IN  [summary |-> summary,
         files |-> PersistMetrics(Load(files, transformed.patients_df,
                                       transformed.appointments_df),
                                  summary)]

MaxEtlPatients == 2

MaxEtlAppointments == 2

MaxEtlRuns == 2

MaxEtlClock == 1

EtlPatients == {[id_paciente |-> id, email |-> <<"A", " ">>] : id \in 1..2}

EtlAppointments ==
    WithOpt(WithOpt({[estado_cita |-> <<" ", "A">>, fecha_cita |-> d] :
                        d \in {<<2025, 3, 1>>, <<2025, 2, 30>>}},
                    "id_cita", {<<"C1">>}),
            "id_paciente", {1})

EtlInit ==
    /\ \E s \in SeqUpTo(EtlPatients, MaxEtlPatients) : patients = s
    /\ \E s \in SeqUpTo(EtlAppointments, MaxEtlAppointments) : appointments = s
    /\ report = NoReport
    /\ ServerIdle

\* service.transform(patients, appointments)
EtlTransform ==
    /\ report' = [service |-> "etl_transform"] @@ Transform(patients, appointments)
    /\ UNCHANGED <<appointments, patients, server>>

\* service.run() on a dataset file holding the two tables
EtlRun ==
    /\ Len(ExistingMetrics(reportFiles)) < MaxEtlRuns
    /\ \E start \in 0..MaxEtlClock : \E end \in start..MaxEtlClock :
           LET ran == Run(reportFiles, patients, appointments, start, end)
           IN  /\ report' = [service |-> "etl", summary |-> ran.summary]
               /\ reportFiles' = ran.files
    /\ UNCHANGED <<appointments, patients, dataset, uploading, runs>>

EtlNext == EtlTransform \/ EtlRun

SpecEtl == EtlInit /\ [][EtlNext]_vars

\* The rows of an exported table, as read back from its CSV file.
C13_Exported(name) ==
    (CHOOSE f \in EtlFilesNamed(reportFiles, name, "csv") : TRUE).content

\* C13: after a run every exported appointment has an id_paciente, which
\* is the id of an exported patient, and the summary counts the exported
\* rows of both tables.
C13_ExportedAppointmentsHaveExportedPatients ==
    report.service = "etl" =>
        LET exported_patients == C13_Exported(<<"pacientes_cleaned">>)
            exported_appointments == C13_Exported(<<"citas_cleaned">>)
        IN  /\ \A i \in 1..Len(exported_appointments) :
                   /\ Has(exported_appointments[i], "id_paciente")
                   /\ \E j \in 1..Len(exported_patients) :
                          exported_patients[j].id_paciente =
                              exported_appointments[i].id_paciente
            /\ Len(exported_patients) = report.summary.patients_exported
            /\ Len(exported_appointments) = report.summary.appointments_exported

\* C14: every run appends one entry to etl_metrics.json after the entries
\* the file held, which stay as they were, and that entry carries the
\* run's exported patient count, exported appointment count and number of
\* orphans.
C14_EachRunAppendsOneEntry ==
    [][(report'.service = "etl" /\ vars' # vars) =>
           LET before == ExistingMetrics(reportFiles)
               after == ExistingMetrics(reportFiles')
           IN  /\ Len(after) = Len(before) + 1
               /\ SubSeq(after, 1, Len(before)) = before
               /\ after[Len(after)].patients = report'.summary.patients_exported
               /\ after[Len(after)].appointments =
                      report'.summary.appointments_exported
               /\ after[Len(after)].orphans = Len(report'.summary.orphans)]_vars

\* A second run has added its entry after the entry of an earlier, shorter
\* run, with one orphan pruned.
C14_Witness ==
    LET entries == ExistingMetrics(reportFiles)
    IN  /\ report.service = "etl"
        /\ Len(entries) = 2
        /\ entries[1].duration_seconds = 0
        /\ entries[2].duration_seconds = 1
        /\ entries[2].orphans = 1
        /\ entries[2].appointments = 1

\* Whether an input appointment references an input patient.
C15_ReferencesPatient(row) ==
    /\ Has(row, "id_paciente")
    /\ \E i \in 1..Len(patients) : patients[i].id_paciente = row.id_paciente

\* A row without its cleaned text.
C15_Row(row) == [f \in DOMAIN row \ {"estado_cita"} |-> row[f]]

C15_Rows(df) == [i \in 1..Len(df) |-> C15_Row(df[i])]

\* C15: transform exports exactly the input appointments whose fecha_cita
\* is a date and whose id_paciente is the id of an input patient, lists in
\* summary["orphans"] the id_cita of exactly the input appointments that
\* reference no input patient, and reports the input sizes.
C15_TransformKeepsDatedKnownAndListsOrphans ==
    report.service = "etl_transform" =>
        LET Exported(row) ==
                /\ Has(row, "fecha_cita") /\ IsIsoDate(row.fecha_cita)
                /\ C15_ReferencesPatient(row)
            Orphan(row) == ~C15_ReferencesPatient(row)
            orphans == SelectSeq(appointments, Orphan)
        IN  /\ C15_Rows(report.appointments_df) =
                   C15_Rows(SelectSeq(appointments, Exported))
            /\ report.summary.orphans =
                   [i \in 1..Len(orphans) |->
                       IF Has(orphans[i], "id_cita") THEN orphans[i].id_cita
                       ELSE NotAvailable]
            /\ report.summary.patients_raw = Len(patients)
            /\ report.summary.appointments_raw = Len(appointments)

(***************************************************************************)
(* DemandForecastService                                                   *)
(*                                                                         *)
(* A month key "YYYY-MM" is the tuple <<year, month>>; a float is the      *)
(* exact fraction [num, den] with den > 0.                                 *)
(***************************************************************************)
MONTHS_AHEAD == 3

BASE_CAPACITY == 15

SinMedico == <<"Sin médico">>

General == <<"General">>

\* _parse_date: <<>> stands for None
ForecastParseDate(value) ==
    IF value # <<>> /\ IsIsoDate(value) THEN value ELSE <<>>

\* _format_month
FormatMonth(date) == <<date[1], date[2]>>

\* The appointments the loop of forecast does not skip.
DatedAppointments(records) ==
    LET Dated(a) == Has(a, "fecha_cita") /\ ForecastParseDate(a.fecha_cita) # <<>>
    IN  SelectSeq(records, Dated)

\* appointment.medico or "Sin médico"
DoctorOf(a) == IF Has(a, "medico") /\ a.medico # <<>> THEN a.medico ELSE SinMedico

\* appointment.especialidad or "General"
SpecialtyOf(a) ==
    IF Has(a, "especialidad") /\ a.especialidad # <<>> THEN a.especialidad
    ELSE General

\* monthly_totals[month]
MonthlyTotal(dated, month) ==
    Cardinality({i \in 1..Len(dated) : FormatMonth(dated[i].fecha_cita) = month})

\* doctor_month.get((doctor, month), 0)
DoctorMonth(dated, doctor, month) ==
    Cardinality({i \in 1..Len(dated) :
                    /\ DoctorOf(dated[i]) = doctor
                    /\ FormatMonth(dated[i].fecha_cita) = month})

\* doctor_specialty[doctor]: the specialty of the doctor's last appointment
DoctorSpecialty(dated, doctor) ==
    LET last == CHOOSE i \in 1..Len(dated) :
                    /\ DoctorOf(dated[i]) = doctor
                    /\ \A j \in (i + 1)..Len(dated) : DoctorOf(dated[j]) # doctor
    IN  SpecialtyOf(dated[last])

\* sorted(monthly_totals.keys())
RECURSIVE SortMonths(_)
SortMonths(months) ==
    IF months = {} THEN <<>>
    ELSE LET first == CHOOSE m \in months :
                          \A other \in months \ {m} : KeyLess(m, other)
         IN  <<first>> \o SortMonths(months \ {first})

\* sum(rates) of the month-over-month rates (curr - prev) / prev
RECURSIVE SumRates(_, _, _)
SumRates(dated, months, k) ==
    IF k >= Len(months) THEN [num |-> 0, den |-> 1]
    ELSE LET prev_value == MonthlyTotal(dated, months[k])
             curr_value == MonthlyTotal(dated, months[k + 1])
             rest == SumRates(dated, months, k + 1)
         IN  [num |-> (curr_value - prev_value) * rest.den + rest.num * prev_value,
              den |-> prev_value * rest.den]

\* _compute_avg_growth: every month of months has appointments, so no rate
\* is skipped.
ComputeAvgGrowth(dated, months) ==
    IF Len(months) < 2 THEN [num |-> 0, den |-> 1]
    ELSE LET total == SumRates(dated, months, 1)
         IN  [num |-> total.num, den |-> total.den * (Len(months) - 1)]

\* _build_future_months
RECURSIVE BuildFutureMonths(_, _)
BuildFutureMonths(last_month, count) ==
    IF count = 0 THEN <<>>
    ELSE LET next == IF last_month[2] + 1 > 12 THEN <<last_month[1] + 1, 1>>
                     ELSE <<last_month[1], last_month[2] + 1>>
         IN  <<next>> \o BuildFutureMonths(next, count - 1)

RECURSIVE Power(_, _)
Power(base, exponent) ==
    IF exponent = 0 THEN 1 ELSE base * Power(base, exponent - 1)

\* int(round(num / den)): the nearest integer, the even one of two equally
\* near (num >= 0, den > 0)
RoundToInt(num, den) ==
    LET q == num \div den
        rem == num % den
    IN  IF 2 * rem < den THEN q
        ELSE IF 2 * rem > den THEN q + 1
        ELSE IF q % 2 = 0 THEN q ELSE q + 1

\* The prediction grown by the same amount every month.
PredictedMutant(last_count, growth, idx) ==
    IF last_count = 0 THEN 0
    ELSE RoundToInt(last_count * (growth.den + idx * growth.num), growth.den)

\* int(round(last_count * ((1 + avg_growth) ** idx))) if last_count else 0
Predicted(last_count, growth, idx) ==
    IF last_count = 0 THEN 0
    ELSE RoundToInt(last_count * Power(growth.den + growth.num, idx),
                    Power(growth.den, idx))

\* The capacity truncated instead of rounded: int(last_count * 1.2).
CapacityMutant(last_count) ==
    LET scaled == (last_count * 12) \div 10
    IN  IF scaled > BASE_CAPACITY THEN scaled ELSE BASE_CAPACITY

\* max(int(round(last_count * 1.2)), self.BASE_CAPACITY)
Capacity(last_count) ==
    LET scaled == RoundToInt(last_count * 12, 10)
    IN  IF scaled > BASE_CAPACITY THEN scaled ELSE BASE_CAPACITY

\* The entries of one doctor, one per future month.
DoctorEntries(dated, doctor, last_month, future_months, growth) ==
    LET last_count == DoctorMonth(dated, doctor, last_month)
    IN  [idx \in 1..Len(future_months) |->
            [doctor |-> doctor,
             specialty |-> DoctorSpecialty(dated, doctor),
             month |-> future_months[idx],
             predicted_demand |-> Predicted(last_count, growth, idx),
             capacity |-> Capacity(last_count),
             gap |-> Predicted(last_count, growth, idx) - Capacity(last_count)]]

RECURSIVE AllDoctorEntries(_, _, _, _, _)
AllDoctorEntries(dated, doctors, last_month, future_months, growth) ==
    IF doctors = <<>> THEN <<>>
    ELSE DoctorEntries(dated, Head(doctors), last_month, future_months, growth)
         \o AllDoctorEntries(dated, Tail(doctors), last_month, future_months, growth)

RECURSIVE InsertByDemand(_, _)
InsertByDemand(x, s) ==
    IF s = <<>> THEN <<x>>
    ELSE IF Head(s).predicted_demand < x.predicted_demand THEN <<x>> \o s
    ELSE <<Head(s)>> \o InsertByDemand(x, Tail(s))

\* sorted(entries, key=lambda entry: entry.predicted_demand, reverse=True)
RECURSIVE SortByDemand(_)
SortByDemand(s) ==
    IF s = <<>> THEN <<>>
    ELSE InsertByDemand(s[Len(s)], SortByDemand(SubSeq(s, 1, Len(s) - 1)))

RECURSIVE SumCapacity(_)
SumCapacity(s) == IF s = <<>> THEN 0 ELSE Head(s).capacity + SumCapacity(Tail(s))

\* DemandForecastService.forecast
DemandForecastReport(records) ==
    LET dated == DatedAppointments(records)
    IN  IF dated = <<>>
        THEN [service |-> "demand_forecast",
              avg_monthly_growth |-> [num |-> 0, den |-> 1],
              months_ahead |-> MONTHS_AHEAD,
              future_months |-> <<>>,
              total_capacity |-> 0,
              entries |-> <<>>]
        ELSE LET sorted_months ==
                     SortMonths({FormatMonth(dated[i].fecha_cita) : i \in 1..Len(dated)})
                 avg_growth == ComputeAvgGrowth(dated, sorted_months)
                 last_month == sorted_months[Len(sorted_months)]
                 future_months == BuildFutureMonths(last_month, MONTHS_AHEAD)
                 doctors == FirstSeen([i \in 1..Len(dated) |-> DoctorOf(dated[i])])
                 sorted_entries ==
                     SortByDemand(AllDoctorEntries(dated, doctors, last_month,
                                                   future_months, avg_growth))
             IN  [service |-> "demand_forecast",
                  avg_monthly_growth |-> avg_growth,
                  months_ahead |-> Len(future_months),
                  future_months |-> future_months,
                  total_capacity |-> SumCapacity(sorted_entries),
                  entries |-> sorted_entries]

MaxForecastAppointments == 4

ForecastDates == {<<2025, 11, 5>>, <<2025, 12, 5>>, <<2026, 1, 5>>, <<2025, 2, 30>>}

ForecastAppointments ==
    {[fecha_cita |-> d] : d \in ForecastDates}
    \cup {[fecha_cita |-> d, medico |-> <<"A">>, especialidad |-> <<"Cardio">>] :
             d \in ForecastDates}

\* The size of a block of appointments of doctor A in December 2025, enough
\* for a capacity above BASE_CAPACITY; it follows the lists shorter than
\* MaxForecastAppointments.
ForecastBlock == 13

ForecastInit ==
    /\ \E s \in SeqUpTo(ForecastAppointments, MaxForecastAppointments) :
           \E block \in (IF Len(s) < MaxForecastAppointments
                         THEN {0, ForecastBlock} ELSE {0}) :
               appointments =
                   s \o [i \in 1..block |->
                            [fecha_cita |-> <<2025, 12, 5>>, medico |-> <<"A">>,
                             especialidad |-> <<"Cardio">>]]
    /\ patients = <<>>
    /\ report = NoReport
    /\ ServerIdle

Forecast ==
    /\ report' = DemandForecastReport(appointments)
    /\ UNCHANGED <<appointments, patients, server>>

ForecastNext == Forecast

SpecForecast == ForecastInit /\ [][ForecastNext]_vars

\* The appointments of the input that carry a date.
C16_Dated == {i \in 1..Len(appointments) : IsIsoDate(appointments[i].fecha_cita)}

C16_Month(i) == <<appointments[i].fecha_cita[1], appointments[i].fecha_cita[2]>>

C16_Doctor(i) ==
    IF Has(appointments[i], "medico") THEN appointments[i].medico ELSE SinMedico

\* The number of dated appointments of the doctor in the month.
C16_Volume(doctor, month) ==
    Cardinality({i \in C16_Dated : C16_Doctor(i) = doctor /\ C16_Month(i) = month})

\* The latest of the months of the appointments in among.
C16_LatestMonth(among) ==
    CHOOSE m \in {C16_Month(i) : i \in among} :
        \A i \in among : C16_Month(i) = m \/ KeyLess(C16_Month(i), m)

\* Whether the report holds, for each doctor and each future month k = 1..3,
\* one entry, whose predicted_demand is
\* round(LastVolume(doctor) * (1 + avg_monthly_growth)^k).
C16_PredictsFrom(LastVolume(_)) ==
    report.service = "demand_forecast" =>
        \A doctor \in {C16_Doctor(i) : i \in C16_Dated} :
            \A k \in 1..MONTHS_AHEAD :
                LET found == {n \in 1..Len(report.entries) :
                                 /\ report.entries[n].doctor = doctor
                                 /\ report.entries[n].month = report.future_months[k]}
                    growth == report.avg_monthly_growth
                IN  /\ Cardinality(found) = 1
                    /\ \A n \in found :
                           report.entries[n].predicted_demand =
                               RoundToInt(LastVolume(doctor)
                                              * Power(growth.den + growth.num, k),
                                          Power(growth.den, k))

\* The doctor's count in the latest month in which the doctor has a dated
\* appointment.
C16_OwnLastVolume(doctor) ==
    C16_Volume(doctor,
               C16_LatestMonth({i \in C16_Dated : C16_Doctor(i) = doctor}))

\* The doctor's count in the latest month in which any appointment is dated.
C16_LastMonthVolume(doctor) == C16_Volume(doctor, C16_LatestMonth(C16_Dated))

\* C16 as stated: for each doctor and each future month k = 1..3,
\* predicted_demand is the doctor's appointment count of the latest month in
\* which the doctor has a dated appointment, times (1 + average growth)^k,
\* rounded to an integer.
C16_PredictsFromDoctorsOwnLastMonth == C16_PredictsFrom(C16_OwnLastVolume)

\* C16 as amended: for each doctor and each future month k = 1..3,
\* predicted_demand is the doctor's appointment count in the latest month in
\* which any appointment is dated (0 when the doctor has none in that
\* month), times (1 + average growth)^k, rounded to an integer.
C16_PredictsFromLastMonthOfAll == C16_PredictsFrom(C16_LastMonthVolume)

\* An average growth of one half (one appointment in November, one in
\* December, two in January, both of doctor A): 2 * 1.5 = 3, 2 * 2.25 = 4.5
\* is rounded to the even 4, 2 * 3.375 = 6.75 to 7.
C16_Witness ==
    /\ report.service = "demand_forecast"
    /\ report.avg_monthly_growth.num * 2 = report.avg_monthly_growth.den
    /\ \E a, b, c \in 1..Len(report.entries) :
           /\ report.entries[a].doctor = <<"A">>
           /\ report.entries[b].doctor = <<"A">>
           /\ report.entries[c].doctor = <<"A">>
           /\ report.entries[a].predicted_demand = 3
           /\ report.entries[b].predicted_demand = 4
           /\ report.entries[c].predicted_demand = 7

(***************************************************************************)
(* CancellationRiskService                                                 *)
(*                                                                         *)
(* A status or a specialty is a str whose words are one token each. A      *)
(* weight is a whole number of hundredths (-1.2 is -120). The float        *)
(* 1 / (1 + exp(-weight)) is kept as the application [sigmoid |-> weight]  *)
(* with, in ulps, how the float of these addends stands to the floats of   *)
(* the other sums of the same weight: the logistic function is strictly    *)
(* increasing, so two scores are ordered as their weights are, and then as *)
(* their last bits are. A datetime is a date tuple and datetime.min is     *)
(* <<1, 1, 1>>.                                                            *)
(***************************************************************************)
\* str.lower() of one word
LowerWord(word) ==
    CASE word = "Cancelada" -> "cancelada"
      [] word = "CANCELADA" -> "cancelada"
      [] word = "Reprogramada" -> "reprogramada"
      [] word = "Completada" -> "completada"
      [] word = "REPROGRAMADA" -> "reprogramada"
      [] word = "Programada" -> "programada"
      [] word = "Pediatría" -> "pediatría"
      [] word = "General" -> "general"
      [] OTHER -> word

\* str.title() of one word
TitleWord(word) ==
    CASE word \in {"pediatría", "Pediatría"} -> "Pediatría"
      [] word = "Sin médico" -> "Sin Médico"
      [] word \in {"general", "General"} -> "General"
      [] OTHER -> word

LowerWords(s) == [i \in 1..Len(s) |-> LowerWord(s[i])]

TitleWords(s) == [i \in 1..Len(s) |-> TitleWord(s[i])]

\* _specialty_weights.get(key, 0.1)
SpecialtyWeight(key) ==
    CASE key = <<"pediatría">> -> 40
      [] key = <<"geriatría">> -> 30
      [] key = <<"cardiología">> -> 35
      [] key = <<"cirugía">> -> 25
      [] key = <<"general">> -> 20
      [] OTHER -> 10

\* The least weight whose sigmoid reaches _risk_threshold = 0.6:
\* sigmoid(0.40) = 0.5987 and sigmoid(0.41) = 0.6011.
RiskThresholdWeight == 41

\* Where the float sum -1.2 + addends[1] + ... puts the score among the
\* scores of the exact weight: higher (1), lower (-1) or with the rest (0).
ScoreUlps(addends) ==
    CASE addends \in {<<110, 40, 10>>, <<110, 40, 20>>,
                      <<110, 90, 10>>, <<110, 90, 25>>} -> 1
      [] addends \in {<<60, 140, 40>>, <<60, 40, 140, 20>>} -> -1
      [] OTHER -> 0

\* _sigmoid of the weight -1.2 + addends[1] + ...
Sigmoid(addends) ==
    [sigmoid |-> -120 + SumSeq(addends), ulps |-> ScoreUlps(addends)]

\* score >= self._risk_threshold
IsHighRisk(score) == score.sigmoid >= RiskThresholdWeight

\* _parse_date: <<>> stands for None
RiskParseDate(a) ==
    IF Has(a, "fecha_cita") /\ a.fecha_cita # <<>> /\ IsIsoDate(a.fecha_cita)
    THEN a.fecha_cita
    ELSE <<>>

\* The days of the years before year y.
DaysBeforeYear(y) ==
    365 * (y - 1) + ((y - 1) \div 4) - ((y - 1) \div 100) + ((y - 1) \div 400)

RECURSIVE DaysBeforeMonth(_, _)
DaysBeforeMonth(y, m) ==
    IF m = 1 THEN 0 ELSE DaysBeforeMonth(y, m - 1) + DaysInMonth(y, m - 1)

\* date.toordinal()
ToOrdinal(date) == DaysBeforeYear(date[1]) + DaysBeforeMonth(date[1], date[2]) + date[3]

\* _normalize_specialty
RiskNormalizeSpecialty(a) ==
    IF Has(a, "especialidad") /\ a.especialidad # <<>>
    THEN LowerWords(Strip(a.especialidad))
    ELSE <<"General">>

\* The key without the date.
RiskSortKeyMutant(a) == <<IF Has(a, "id_paciente") THEN a.id_paciente ELSE -1>>

\* _sort_key
RiskSortKey(a) ==
    <<IF Has(a, "id_paciente") THEN a.id_paciente ELSE -1,
      IF RiskParseDate(a) # <<>> THEN ToOrdinal(RiskParseDate(a))
      ELSE ToOrdinal(<<1, 1, 1>>)>>

\* _compute_days_between(previous, current_str), previous not None:
\* -1 stands for None
ComputeDaysBetween(previous, a) ==
    IF RiskParseDate(a) = <<>> THEN -1
    ELSE LET days == ToOrdinal(RiskParseDate(a)) - ToOrdinal(previous)
         IN  IF days > 0 THEN days ELSE 0

\* The terms of the weight of _score_appointment with the factor of each,
\* in the order they are added. prev is the history of the patient (<<>>
\* for none) and days is -1 for None. In the mutation an interval of three
\* days is no longer short.
ScoreTermsMutant(a, prev, days, specialty) ==
    LET normalized ==
            IF prev # <<>> /\ Has(prev[1], "last_status")
                  /\ prev[1].last_status # <<>>
            THEN LowerWords(Strip(prev[1].last_status))
            ELSE <<>>
    IN  (IF normalized = <<"cancelada">>
         THEN <<[weight |-> 110, factor |-> <<"Cancelación previa">>]>>
         ELSE <<>>)
        \o (IF normalized = <<"reprogramada">>
            THEN <<[weight |-> 60, factor |-> <<"Reprogramada previa">>]>>
            ELSE <<>>)
        \o (IF days # -1 /\ days < 3
            THEN <<[weight |-> 90, factor |-> <<"Intervalo corto (<4 días)">>]>>
            ELSE IF days # -1 /\ days <= 7
            THEN <<[weight |-> 40, factor |-> <<"Intervalo ajustado (<8 días)">>]>>
            ELSE <<>>)
        \o (IF Has(a, "estado_cita")
                  /\ LowerWords(Strip(a.estado_cita)) = <<"cancelada">>
            THEN <<[weight |-> 140, factor |-> <<"Estado actual Cancelada">>]>>
            ELSE <<>>)
        \o <<[weight |-> SpecialtyWeight(LowerWords(specialty)),
              factor |-> <<"Especialidad: ">> \o TitleWords(specialty)]>>

ScoreTerms(a, prev, days, specialty) ==
    LET normalized ==
            IF prev # <<>> /\ Has(prev[1], "last_status")
                  /\ prev[1].last_status # <<>>
            THEN LowerWords(Strip(prev[1].last_status))
            ELSE <<>>
    IN  (IF normalized = <<"cancelada">>
         THEN <<[weight |-> 110, factor |-> <<"Cancelación previa">>]>>
         ELSE <<>>)
        \o (IF normalized = <<"reprogramada">>
            THEN <<[weight |-> 60, factor |-> <<"Reprogramada previa">>]>>
            ELSE <<>>)
        \o (IF days # -1 /\ days <= 3
            THEN <<[weight |-> 90, factor |-> <<"Intervalo corto (<4 días)">>]>>
            ELSE IF days # -1 /\ days <= 7
            THEN <<[weight |-> 40, factor |-> <<"Intervalo ajustado (<8 días)">>]>>
            ELSE <<>>)
        \o (IF Has(a, "estado_cita")
                  /\ LowerWords(Strip(a.estado_cita)) = <<"cancelada">>
            THEN <<[weight |-> 140, factor |-> <<"Estado actual Cancelada">>]>>
            ELSE <<>>)
        \o <<[weight |-> SpecialtyWeight(LowerWords(specialty)),
              factor |-> <<"Especialidad: ">> \o TitleWords(specialty)]>>

\* The CancellationRiskEntry of one appointment of the loop of analyze.
RiskEntry(a, prev) ==
    LET specialty_label == RiskNormalizeSpecialty(a)
        days_since_last ==
            IF prev # <<>> /\ prev[1].last_date # <<>>
            THEN ComputeDaysBetween(prev[1].last_date, a)
            ELSE -1
        terms == ScoreTerms(a, prev, days_since_last, specialty_label)
    IN  [id_cita |-> a.id_cita,
         especialidad |-> specialty_label,
         risk_score |-> Sigmoid([i \in 1..Len(terms) |-> terms[i].weight]),
         factors |-> [i \in 1..Len(terms) |-> terms[i].factor]]
        @@ (IF Has(a, "id_paciente") THEN [id_paciente |-> a.id_paciente]
            ELSE <<>>)
        @@ (IF Has(a, "estado_cita") THEN [estado_cita |-> a.estado_cita]
            ELSE <<>>)
        @@ (IF days_since_last # -1 THEN [days_since_last |-> days_since_last]
            ELSE <<>>)

\* patient_history[id_paciente] after the appointment
RiskHistory(a) ==
    <<[last_date |-> RiskParseDate(a)]
      @@ (IF Has(a, "estado_cita") THEN [last_status |-> a.estado_cita]
          ELSE <<>>)>>

\* The entries of the loop of analyze over the sorted appointments, the
\* k-th with the history its patient has after the first k - 1.
RECURSIVE RiskEntries(_, _)
RiskEntries(sorted, k) ==
    IF k > Len(sorted) THEN <<>>
    ELSE LET a == sorted[k]
             before == {j \in 1..(k - 1) :
                           /\ Has(sorted[j], "id_paciente")
                           /\ Has(a, "id_paciente")
                           /\ sorted[j].id_paciente = a.id_paciente}
             prev == IF before = {} THEN <<>>
                     ELSE RiskHistory(sorted[CHOOSE j \in before :
                                                 \A i \in before : i <= j])
         IN  <<RiskEntry(a, prev)>> \o RiskEntries(sorted, k + 1)

RECURSIVE InsertByRisk(_, _)
InsertByRisk(x, s) ==
    IF s = <<>> THEN <<x>>
    ELSE IF KeyLess(<<Head(s).risk_score.sigmoid, Head(s).risk_score.ulps>>,
                    <<x.risk_score.sigmoid, x.risk_score.ulps>>)
    THEN <<x>> \o s
    ELSE <<Head(s)>> \o InsertByRisk(x, Tail(s))

\* sorted(entries, key=lambda entry: entry.risk_score, reverse=True)
RECURSIVE SortByRisk(_)
SortByRisk(s) ==
    IF s = <<>> THEN <<>>
    ELSE InsertByRisk(s[Len(s)], SortByRisk(SubSeq(s, 1, Len(s) - 1)))

TOP_ENTRIES == 20

\* The report with high_risk_count and average_risk taken over the listed
\* entries only.
CancellationRiskReportMutant(records) ==
    LET sorted == Vals(SortKeyed([i \in 1..Len(records) |->
                                     [key |-> RiskSortKey(records[i]),
                                      val |-> records[i]]]))
        entries == RiskEntries(sorted, 1)
        total == Len(sorted)
        sorted_entries == SortByRisk(entries)
        top_entries == SubSeq(sorted_entries, 1,
                              IF Len(sorted_entries) < TOP_ENTRIES
                              THEN Len(sorted_entries) ELSE TOP_ENTRIES)
        scores == [i \in 1..Len(entries) |-> entries[i].risk_score]
        labels == FirstSeen([i \in 1..Len(entries) |-> entries[i].especialidad])
        ScoresOf(label) ==
            Pick(scores, AscSeq({i \in 1..Len(entries) :
                                    entries[i].especialidad = label}))
    IN  [service |-> "cancellation_risk",
         total_records |-> total,
         high_risk_count |->
             Cardinality({i \in 1..Len(top_entries) :
                             IsHighRisk(top_entries[i].risk_score)}),
         average_risk |-> [sum |-> [i \in 1..Len(top_entries) |->
                                       top_entries[i].risk_score],
                           over |-> IF total > 1 THEN total ELSE 1],
         specialty_risk |->
             [i \in 1..Len(labels) |->
                 [specialty |-> labels[i],
                  sum |-> ScoresOf(labels[i]),
                  over |-> Len(ScoresOf(labels[i]))]],
         entries |-> top_entries]

\* CancellationRiskService.analyze: average_risk and specialty_risk are the
\* scores that are summed and the number they are divided by.
CancellationRiskReport(records) ==
    LET sorted == Vals(SortKeyed([i \in 1..Len(records) |->
                                     [key |-> RiskSortKey(records[i]),
                                      val |-> records[i]]]))
        entries == RiskEntries(sorted, 1)
        total == Len(sorted)
        sorted_entries == SortByRisk(entries)
        scores == [i \in 1..Len(entries) |-> entries[i].risk_score]
        labels == FirstSeen([i \in 1..Len(entries) |-> entries[i].especialidad])
        ScoresOf(label) ==
            Pick(scores, AscSeq({i \in 1..Len(entries) :
                                    entries[i].especialidad = label}))
    IN  [service |-> "cancellation_risk",
         total_records |-> total,
         high_risk_count |->
             Cardinality({i \in 1..Len(entries) : IsHighRisk(entries[i].risk_score)}),
         average_risk |-> [sum |-> scores,
                           over |-> IF total > 1 THEN total ELSE 1],
         specialty_risk |->
             [i \in 1..Len(labels) |->
                 [specialty |-> labels[i],
                  sum |-> ScoresOf(labels[i]),
                  over |-> Len(ScoresOf(labels[i]))]],
         entries |-> SubSeq(sorted_entries, 1,
                            IF Len(sorted_entries) < TOP_ENTRIES
                            THEN Len(sorted_entries) ELSE TOP_ENTRIES)]

MaxRiskAppointments == 3

RiskDates == {<<2025, 1, 1>>, <<2025, 1, 4>>, <<2025, 1, 9>>}

RiskStatuses == {<<"Cancelada">>, <<"Reprogramada">>}

\* The appointments of patient 1 on the three dates in every status, two
\* of them also with a specialty, one without a date, and two of no
\* patient.
RiskAppointments ==
    WithOpt({[id_paciente |-> 1, fecha_cita |-> d] : d \in RiskDates},
            "estado_cita", RiskStatuses)
    \cup WithOpt({[id_paciente |-> 1, fecha_cita |-> <<2025, 1, 4>>,
                   especialidad |-> <<"Pediatría", " ">>]},
                 "estado_cita", {<<"Cancelada">>})
    \cup {[id_paciente |-> 1, estado_cita |-> <<" ", "CANCELADA">>]}
    \cup WithOpt({[fecha_cita |-> <<2025, 1, 4>>]}, "estado_cita", {<<"Cancelada">>})

\* Every appointment has its own id_cita.
RiskInit ==
    /\ \E s \in SeqUpTo(RiskAppointments, MaxRiskAppointments) :
           appointments = [i \in 1..Len(s) |-> s[i] @@ [id_cita |-> i]]
    /\ patients = <<>>
    /\ report = NoReport
    /\ ServerIdle

RiskAnalyze ==
    /\ report' = CancellationRiskReport(appointments)
    /\ UNCHANGED <<appointments, patients, server>>

RiskNext == RiskAnalyze

SpecRisk == RiskInit /\ [][RiskNext]_vars

MaxRiskTopPrefix == 2

RiskBlock == 21

\* A cancelled paediatrics appointment of no patient.
RiskBlockAppointment ==
    [fecha_cita |-> <<2025, 1, 4>>, estado_cita |-> <<"Cancelada">>,
     especialidad |-> <<"Pediatría">>]

\* The lists of up to MaxRiskTopPrefix appointments, alone or followed by
\* RiskBlock appointments of no patient, more than the report lists.
\* Every appointment has its own id_cita.
RiskTopInit ==
    /\ \E s \in SeqUpTo(RiskAppointments, MaxRiskTopPrefix) :
       \E block \in {0, RiskBlock} :
           LET all == s \o [i \in 1..block |-> RiskBlockAppointment]
           IN  appointments = [i \in 1..Len(all) |-> all[i] @@ [id_cita |-> i]]
    /\ patients = <<>>
    /\ report = NoReport
    /\ ServerIdle

SpecRiskTop == RiskTopInit /\ [][RiskNext]_vars

\* Whether the entry carries the factor.
C17_HasFactor(entry, factor) ==
    \E i \in 1..Len(entry.factors) : entry.factors[i] = <<factor>>

\* The interval of the entry: none, short (up to 3 days), tight (up to 7
\* days) or long.
C17_Interval(entry) ==
    IF ~Has(entry, "days_since_last") THEN "none"
    ELSE IF entry.days_since_last <= 3 THEN "short"
    ELSE IF entry.days_since_last <= 7 THEN "tight"
    ELSE "long"

\* Whether the appointment of the entry is itself cancelled.
C17_IsCancelled(entry) ==
    /\ Has(entry, "estado_cita")
    /\ LowerWords(Strip(entry.estado_cita)) = <<"cancelada">>

\* Whether the two entries agree on prior cancellation, interval and
\* specialty.
C17_AgreeOnThree(a, b) ==
    /\ C17_HasFactor(a, "Cancelación previa") <=> C17_HasFactor(b, "Cancelación previa")
    /\ C17_Interval(a) = C17_Interval(b)
    /\ a.especialidad = b.especialidad

C20_Dated ==
    {i \in 1..Len(appointments) :
        /\ Has(appointments[i], "id_paciente")
        /\ Has(appointments[i], "fecha_cita")
        /\ IsIsoDate(appointments[i].fecha_cita)}

\* Whether appointment i comes before appointment j in date order, the
\* order of the input deciding between two of the same date.
C20_Before(i, j) ==
    \/ ToOrdinal(appointments[i].fecha_cita) < ToOrdinal(appointments[j].fecha_cita)
    \/ /\ appointments[i].fecha_cita = appointments[j].fecha_cita
       /\ i < j

\* Whether i is the appointment of the same patient that immediately
\* precedes j.
C20_ImmediatelyPrecedes(i, j) ==
    /\ i \in C20_Dated /\ j \in C20_Dated
    /\ appointments[i].id_paciente = appointments[j].id_paciente
    /\ C20_Before(i, j)
    /\ \A k \in C20_Dated :
           (/\ appointments[k].id_paciente = appointments[j].id_paciente
            /\ C20_Before(k, j))
           => (k = i \/ C20_Before(k, i))

\* The pairs <<i, j>> of the claim: i immediately precedes j, was
\* Cancelada and took place at most 3 days earlier.
C20_Pairs ==
    {pair \in C20_Dated \X C20_Dated :
        /\ C20_ImmediatelyPrecedes(pair[1], pair[2])
        /\ Has(appointments[pair[1]], "estado_cita")
        /\ appointments[pair[1]].estado_cita = <<"Cancelada">>
        /\ ToOrdinal(appointments[pair[2]].fecha_cita)
               - ToOrdinal(appointments[pair[1]].fecha_cita) <= 3}

\* C20: every appointment whose same-patient immediately preceding
\* appointment was Cancelada at most 3 days earlier has an entry with a
\* score of at least 0.6, the factor "Cancelación previa" and, as
\* days_since_last, the days between the two dates, and high_risk_count
\* counts these appointments.
C20_CancelledShortlyBeforeIsHighRisk ==
    report.service = "cancellation_risk" =>
        /\ \A pair \in C20_Pairs :
               \E n \in 1..Len(report.entries) :
                   /\ report.entries[n].id_cita = appointments[pair[2]].id_cita
                   /\ IsHighRisk(report.entries[n].risk_score)
                   /\ C17_HasFactor(report.entries[n], "Cancelación previa")
                   /\ Has(report.entries[n], "days_since_last")
                   /\ report.entries[n].days_since_last =
                          ToOrdinal(appointments[pair[2]].fecha_cita)
                              - ToOrdinal(appointments[pair[1]].fecha_cita)
        /\ report.high_risk_count >= Cardinality({pair[2] : pair \in C20_Pairs})

\* The report on an appointment listed before the cancelled appointment
\* that took place 3 days earlier.
C20_Witness ==
    /\ report.service = "cancellation_risk"
    /\ \E pair \in C20_Pairs :
           /\ pair[2] < pair[1]
           /\ ToOrdinal(appointments[pair[2]].fecha_cita)
                  - ToOrdinal(appointments[pair[1]].fecha_cita) = 3
    /\ report.high_risk_count >= 1

(***************************************************************************)
(* ExecutiveDiscrepancyService                                             *)
(*                                                                         *)
(* A JSON value is [type, ...]: a dict with its items (a function of its   *)
(* keys), a list with its items, an int with its value, or None. A source  *)
(* file under report_dir is its ReportFile with its content: text that is  *)
(* not JSON, or a JSON value. The sources are the logs the use-case        *)
(* scripts write with report.to_dict(): objects, or what is left of one    *)
(* after a write that did not finish.                                      *)
(***************************************************************************)
DEFINITION ==
    <<[category |-> "Referencialidad", severity |-> "high",
       description |-> "Pacientes huérfanos detectados en citas_medicas.",
       dir |-> "reports", source |-> <<"referential_integrity_log">>,
       path |-> <<"summary", "orphan_citas">>],
      [category |-> "Alertas de agenda", severity |-> "high",
       description |-> "Citas sin médico/fecha detectadas.",
       dir |-> "reports", source |-> <<"appointment_alerts_log">>,
       path |-> <<"summary", "alerts">>],
      [category |-> "Revisión ejecutiva", severity |-> "medium",
       description |-> "Citas completadas/canceladas sin datos críticos.",
       dir |-> "reports", source |-> <<"appointment_review_log">>,
       path |-> <<"summary", "reviewed_citas">>],
      [category |-> "Anomalías de costos", severity |-> "medium",
       description |-> "Citas con costos fuera de rango (>2σ).",
       dir |-> "reports", source |-> <<"appointment_cost_audit_log">>,
       path |-> <<"anomalies">>],
      [category |-> "Reprogramaciones", severity |-> "medium",
       description |-> "Citas con múltiples reprogramaciones.",
       dir |-> "reports/reports", source |-> <<"appointment_state_timeline_log">>,
       path |-> <<"summary", "reprogrammed_citas">>]>>

JsonDict(items) == [type |-> "dict", items |-> items]

JsonList(items) == [type |-> "list", items |-> items]

JsonInt(value) == [type |-> "int", value |-> value]

JsonNone == [type |-> "None"]

\* {}
EmptyDict == JsonDict(<<>>)

MalformedJson == [type |-> "malformed"]

\* The loop of _read_value over the parts of the path expression, none of
\* which is a number: data.get(part, {}) raises AttributeError when data is
\* not a dict.
RECURSIVE WalkPath(_, _)
WalkPath(data, parts) ==
    IF parts = <<>> THEN data
    ELSE IF data.type # "dict" THEN [type |-> "raised", raised |-> "AttributeError"]
    ELSE LET next == IF Head(parts) \in DOMAIN data.items
                     THEN data.items[Head(parts)]
                     ELSE EmptyDict
         IN  IF next = EmptyDict THEN next ELSE WalkPath(next, Tail(parts))

\* _read_value returning 0 for every list.
ReadValueMutant(files, definition) ==
    LET found == {f \in files : /\ f.dir = definition.dir
                                /\ f.name = definition.source
                                /\ f.ext = "json"}
        content == (CHOOSE f \in found : TRUE).content
        data == WalkPath(content, definition.path)
    IN  IF found = {} THEN 0
        ELSE IF content = MalformedJson THEN 0
        ELSE CASE data.type = "raised" -> data
               [] data.type = "int" -> data.value
               [] OTHER -> 0

\* _read_value: the count, or the exception it raises
ReadValue(files, definition) ==
    LET found == {f \in files : /\ f.dir = definition.dir
                                /\ f.name = definition.source
                                /\ f.ext = "json"}
        content == (CHOOSE f \in found : TRUE).content
        data == WalkPath(content, definition.path)
    IN  IF found = {} THEN 0
        ELSE IF content = MalformedJson THEN 0
        ELSE CASE data.type = "raised" -> data
               [] data.type = "list" -> Len(data.items)
               [] data.type = "dict" -> 0
               [] data.type = "None" -> 0
               [] OTHER -> data.value

\* The entries compile appends for the definitions from the k-th on.
RECURSIVE CompileEntries(_, _)
CompileEntries(files, k) ==
    IF k > Len(DEFINITION) THEN <<>>
    ELSE LET definition == DEFINITION[k]
             count == ReadValue(files, definition)
         IN  IF count < 1 THEN CompileEntries(files, k + 1)
             ELSE <<[category |-> definition.category,
                     description |-> definition.description,
                     count |-> count,
                     severity |-> definition.severity,
                     source |-> definition.source]>>
                  \o CompileEntries(files, k + 1)

CHANNEL == "gobernanza@hospital.local"

\* ExecutiveDiscrepancyService.compile
ExecutiveDiscrepancyReport(files) ==
    IF \E k \in 1..Len(DEFINITION) : ReadValue(files, DEFINITION[k]) \notin Int
    THEN [service |-> "executive_discrepancy", raised |-> "AttributeError"]
    ELSE [service |-> "executive_discrepancy",
          channel |-> CHANNEL,
          entries |-> CompileEntries(files, 1)]

MaxDiscrepancyCount == 2

\* What report.to_dict() of a use-case script puts at the path: a number,
\* or a list of entries (none or MaxDiscrepancyCount of them).
DiscrepancyValues ==
    {JsonInt(n) : n \in 0..MaxDiscrepancyCount}
    \cup {JsonList(<<>>), JsonList([i \in 1..MaxDiscrepancyCount |-> EmptyDict])}

\* The document with the value at the path.
RECURSIVE DocumentWith(_, _)
DocumentWith(path, value) ==
    IF path = <<>> THEN value
    ELSE JsonDict(Head(path) :> DocumentWith(Tail(path), value))

\* The contents a source file can have: a log with a value at the path, a
\* log without the last key of the path, or text that is not JSON.
SourceContents(definition) ==
    {DocumentWith(definition.path, v) : v \in DiscrepancyValues}
    \cup {DocumentWith(SubSeq(definition.path, 1, Len(definition.path) - 1),
                       JsonDict("generated_at" :> JsonNone)),
          MalformedJson}

SourceFile(definition, content) ==
    ReportFile(definition.dir, definition.source, "json") @@ [content |-> content]

\* The k-th source: no file, or a file with one of its contents.
SourceFiles(k) ==
    {{}} \cup {{SourceFile(DEFINITION[k], c)} : c \in SourceContents(DEFINITION[k])}

DiscrepancyInit ==
    /\ \E f1 \in SourceFiles(1), f2 \in SourceFiles(2), f3 \in SourceFiles(3),
          f4 \in SourceFiles(4), f5 \in SourceFiles(5) :
           reportFiles = f1 \cup f2 \cup f3 \cup f4 \cup f5
    /\ appointments = <<>>
    /\ patients = <<>>
    /\ report = NoReport
    /\ dataset = ShippedDataset
    /\ uploading = NoUpload
    /\ runs = EmptyBag

Compile ==
    /\ report' = ExecutiveDiscrepancyReport(reportFiles)
    /\ UNCHANGED <<appointments, patients, server>>

DiscrepancyNext == Compile

SpecDiscrepancy == DiscrepancyInit /\ [][DiscrepancyNext]_vars
\* The source file of the k-th definition, when there is one.
C18_Files(k) ==
    {f \in reportFiles : f.dir = DEFINITION[k].dir /\ f.name = DEFINITION[k].source}

\* What the document holds at the path: a dict without the next key of the
\* path holds nothing there.
RECURSIVE C18_At(_, _)
C18_At(data, path) ==
    IF path = <<>> THEN data
    ELSE IF data.type = "dict" /\ Head(path) \in DOMAIN data.items
    THEN C18_At(data.items[Head(path)], Tail(path))
    ELSE JsonNone

\* The value of the k-th source: 0 for a missing or malformed file, the
\* number for a scalar, the length for a list.
C18_Value(k) ==
    IF C18_Files(k) = {} THEN 0
    ELSE LET content == (CHOOSE f \in C18_Files(k) : TRUE).content
             value == C18_At(content, DEFINITION[k].path)
         IN  IF content = MalformedJson THEN 0
             ELSE IF value.type = "int" THEN value.value
             ELSE IF value.type = "list" THEN Len(value.items)
             ELSE 0

C19_EntriesOf(r) ==
    {n \in 1..Len(report.log_entries) :
        report.log_entries[n].id_paciente = r.id_paciente}

\* Whether the birth date of the patient is an ISO date.
C19_HasBirthdate(r) == Has(r, "fecha_nacimiento") /\ IsIsoDate(r.fecha_nacimiento)

\* C19: every patient is in exactly one class - birth date missing or
\* invalid (one entry saying so), age imputed (no age recorded: one
\* imputed_age entry), age inconsistent (one inconsistent_age entry, whose
\* recorded and calculated ages differ) or consistent (no entry) - so no
\* patient has two entries, the log is as long as the three counters
\* together and they never exceed total_records.
C19_EachPatientInOneClass ==
    report.service = "age_consistency" =>
        /\ \A i \in 1..Len(patients) :
               LET r == patients[i]
                   logged == C19_EntriesOf(r)
               IN  /\ Cardinality(logged) <= 1
                   /\ ~C19_HasBirthdate(r) =>
                          \E n \in logged :
                              report.log_entries[n].action
                                  \in {"missing_birthdate", "invalid_birthdate"}
                   /\ (C19_HasBirthdate(r) /\ ~Has(r, "edad")) =>
                          \E n \in logged :
                              report.log_entries[n].action = "imputed_age"
                   /\ (C19_HasBirthdate(r) /\ Has(r, "edad")) =>
                          \A n \in logged :
                              /\ report.log_entries[n].action = "inconsistent_age"
                              /\ report.log_entries[n].edad_calculada # r.edad
        /\ Len(report.log_entries) =
               report.inconsistencies + report.imputations
                   + report.missing_birthdate_records
        /\ report.inconsistencies + report.imputations
               + report.missing_birthdate_records <= report.total_records

\* An audit of a patient whose age is consistent and of one whose age is
\* imputed: two records, one entry.
C19_Witness ==
    /\ report.service = "age_consistency"
    /\ report.total_records = 2
    /\ Len(report.log_entries) = 1
    /\ report.imputations = 1
    /\ \E i \in 1..Len(patients) :
           C19_HasBirthdate(patients[i]) /\ Has(patients[i], "edad")

\* The k-th calendar month after the month.
C21_MonthAfter(month, k) ==
    LET index == month[1] * 12 + (month[2] - 1) + k
    IN  <<index \div 12, (index % 12) + 1>>

\* The integer nearest to 1.2 * volume (12 * volume is even and 10 * c + 5
\* is odd, so no two integers are equally near).
C21_Scaled(volume) ==
    CHOOSE c \in 0..(2 * volume + 1) :
        10 * c - 5 < 12 * volume /\ 12 * volume < 10 * c + 5

\* C21: the forecast holds exactly one entry per doctor and future month,
\* the future months being the three calendar months after the latest
\* month of a dated appointment (January of the next year after December);
\* an entry's capacity is the larger of 15 and 1.2 times the doctor's volume
\* in that latest month, rounded, and its gap is predicted_demand minus
\* capacity; without a dated appointment the report has no entries, growth
\* 0.0 and months_ahead 3.
C21_OneEntryPerDoctorAndFutureMonth ==
    report.service = "demand_forecast" =>
        IF C16_Dated = {}
        THEN /\ report.entries = <<>>
             /\ report.avg_monthly_growth.num = 0
             /\ report.months_ahead = 3
        ELSE LET latest == C16_LatestMonth(C16_Dated)
                 doctors == {C16_Doctor(i) : i \in C16_Dated}
             IN  /\ report.months_ahead = 3
                 /\ report.future_months =
                        [k \in 1..3 |-> C21_MonthAfter(latest, k)]
                 /\ Len(report.entries) = 3 * Cardinality(doctors)
                 /\ \A doctor \in doctors : \A k \in 1..3 :
                        \E n \in 1..Len(report.entries) :
                            LET entry == report.entries[n]
                                scaled == C21_Scaled(C16_Volume(doctor, latest))
                            IN  /\ entry.doctor = doctor
                                /\ entry.month = C21_MonthAfter(latest, k)
                                /\ entry.capacity =
                                       (IF scaled > 15 THEN scaled ELSE 15)
                                /\ entry.gap =
                                       entry.predicted_demand - entry.capacity

\* Thirteen appointments of doctor A in December 2025, the latest month: a
\* capacity of round(15.6) = 16 in January 2026, and another doctor at the
\* base capacity.
C21_Witness ==
    /\ report.service = "demand_forecast"
    /\ report.future_months = <<<<2026, 1>>, <<2026, 2>>, <<2026, 3>>>>
    /\ \E n, m \in 1..Len(report.entries) :
           /\ report.entries[n].doctor = <<"A">>
           /\ report.entries[n].month = <<2026, 1>>
           /\ report.entries[n].capacity = 16
           /\ report.entries[m].doctor = SinMedico
           /\ report.entries[m].capacity = 15

(***************************************************************************)
(* AppointmentStateTimelineService                                         *)
(*                                                                         *)
(* A status is a str whose words are one token each, a doctor a str of     *)
(* characters; an ISO week "YYYY-Www" is the tuple <<year, week>>, and the *)
(* isoformat of a parsed date is the date tuple (<<>> for None).           *)
(***************************************************************************)
SinEstado == <<"sin_estado">>

\* (record.estado_cita or "sin_estado").strip()
TimelineStatus(record) ==
    Strip(IF Truthy(record, "estado_cita") THEN record.estado_cita ELSE SinEstado)

\* The status that merely holds "reprogram" counted as well.
StartsWithReprogramMutant(status) ==
    \E i \in 1..Len(status) : LowerWord(status[i]) = "reprogramada"

\* status.lower().startswith("reprogram")
StartsWithReprogram(status) ==
    status # <<>> /\ Head(LowerWords(status)) = "reprogramada"

\* _parse_date (the same code as in DemandForecastService)
TimelineParseDate(record) ==
    IF Has(record, "fecha_cita") THEN ForecastParseDate(record.fecha_cita) ELSE <<>>

\* _sort_key: (parsed or datetime.min, hash(id_cita)); the records of a
\* group share id_cita, so the hash is the same number for all of them.
TimelineSortKey(record) ==
    (IF TimelineParseDate(record) # <<>> THEN TimelineParseDate(record)
     ELSE <<1, 1, 1>>) \o <<0>>

\* _normalize_doctor: <<>> stands for None and for ""
NormalizeDoctor(record) ==
    IF Truthy(record, "medico") THEN JoinSplit(record.medico) ELSE <<>>

\* date.isocalendar()[:2]: the week of the Thursday of the date's week
IsoWeek(date) ==
    LET thursday == ToOrdinal(date) - ((ToOrdinal(date) - 1) % 7) + 3
        year == IF thursday <= DaysBeforeYear(date[1]) THEN date[1] - 1
                ELSE IF thursday > DaysBeforeYear(date[1] + 1) THEN date[1] + 1
                ELSE date[1]
    IN  <<year, ((thursday - DaysBeforeYear(year) - 1) \div 7) + 1>>

\* sorted(group, key=...) for the group of one id_cita
SortedGroup(records, id_cita) ==
    LET group == SelectSeq(records, LAMBDA r : r.id_cita = id_cita)
    IN  Vals(SortKeyed([i \in 1..Len(group) |->
                           [key |-> TimelineSortKey(group[i]), val |-> group[i]]]))

\* The entry of one id_cita: the body of the loop over grouped.items().
HistoryEntry(records, id_cita) ==
    LET sorted_group == SortedGroup(records, id_cita)
        transitions == [i \in 1..Len(sorted_group) |->
                           <<TimelineStatus(sorted_group[i]),
                             TimelineParseDate(sorted_group[i])>>]
        named == SelectSeq(sorted_group, LAMBDA r : NormalizeDoctor(r) # <<>>)
    IN  [id_cita |-> id_cita,
         transitions |-> transitions,
         doctors |-> FirstSeen([i \in 1..Len(named) |-> NormalizeDoctor(named[i])]),
         reprogram_count |->
             Cardinality({i \in 1..Len(sorted_group) :
                             StartsWithReprogram(TimelineStatus(sorted_group[i]))}),
         final_estado |-> transitions[Len(transitions)][1]]

\* The reprogrammed records that count for occupancy, as [id_cita, medico,
\* week], in the order the loops meet them.
RECURSIVE Reprograms(_, _)
Reprograms(records, ids) ==
    IF ids = <<>> THEN <<>>
    ELSE LET counted ==
                 SelectSeq(SortedGroup(records, Head(ids)),
                           LAMBDA r : /\ StartsWithReprogram(TimelineStatus(r))
                                      /\ NormalizeDoctor(r) # <<>>
                                      /\ TimelineParseDate(r) # <<>>)
         IN  [i \in 1..Len(counted) |->
                 [id_cita |-> Head(ids),
                  medico |-> NormalizeDoctor(counted[i]),
                  week |-> IsoWeek(TimelineParseDate(counted[i]))]]
             \o Reprograms(records, Tail(ids))

\* occupancy_impacts, sorted by (-reprograms, medico, week)
OccupancyImpacts(reprograms) ==
    LET keys == FirstSeen([i \in 1..Len(reprograms) |->
                              <<reprograms[i].medico, reprograms[i].week>>])
        Of(k) == {i \in 1..Len(reprograms) :
                     <<reprograms[i].medico, reprograms[i].week>> = k}
        impacts == [n \in 1..Len(keys) |->
                       [medico |-> keys[n][1],
                        week |-> keys[n][2],
                        reprograms |-> Cardinality(Of(keys[n])),
                        affected_citas |->
                            Cardinality({reprograms[i].id_cita : i \in Of(keys[n])})]]
    IN  Vals(SortKeyed([n \in 1..Len(impacts) |->
                           [key |-> <<-impacts[n].reprograms>>
                                    \o StrKey(impacts[n].medico) \o <<0>>
                                    \o impacts[n].week,
                            val |-> impacts[n]]]))

\* AppointmentStateTimelineService.analyze
AppointmentStateTimelineReport(records) ==
    LET ids == FirstSeen([i \in 1..Len(records) |-> records[i].id_cita])
        entries == [n \in 1..Len(ids) |-> HistoryEntry(records, ids[n])]
    IN  [service |-> "appointment_state_timeline",
         total_citas |-> Len(ids),
         reprogrammed_citas |->
             Cardinality({n \in 1..Len(entries) : entries[n].reprogram_count > 0}),
         entries |-> entries,
         occupancy_impacts |-> OccupancyImpacts(Reprograms(records, ids))]

MaxTimelineRecords == 4

TimelineRecords ==
    {[id_cita |-> <<"1">>, fecha_cita |-> <<2025, 1, 9>>,
      estado_cita |-> <<"Programada">>, medico |-> <<"A">>],
     [id_cita |-> <<"1">>, fecha_cita |-> <<2025, 1, 1>>,
      estado_cita |-> <<"Reprogramada">>, medico |-> <<"B">>],
     [id_cita |-> <<"1">>, fecha_cita |-> <<2025, 1, 9>>,
      estado_cita |-> <<" ", "REPROGRAMADA">>, medico |-> <<" ", "A">>],
     [id_cita |-> <<"1">>,
      estado_cita |-> <<"No", " ", "Reprogramada">>],
     [id_cita |-> <<"1">>, fecha_cita |-> <<2025, 1, 1>>, medico |-> <<"A">>],
     [id_cita |-> <<"2">>, fecha_cita |-> <<2025, 1, 9>>,
      estado_cita |-> <<"Reprogramada">>, medico |-> <<"B">>],
     [id_cita |-> <<"2">>, fecha_cita |-> <<2025, 2, 30>>,
      estado_cita |-> <<"Programada">>, medico |-> <<" ">>],
     [id_cita |-> <<"2">>, fecha_cita |-> <<2025, 1, 4>>,
      estado_cita |-> <<"Cancelada">>, medico |-> <<"A">>]}

TimelineInit ==
    /\ appointments \in SeqUpTo(TimelineRecords, MaxTimelineRecords)
    /\ patients = <<>>
    /\ report = NoReport
    /\ ServerIdle

TimelineAnalyze ==
    /\ report' = AppointmentStateTimelineReport(appointments)
    /\ UNCHANGED <<appointments, patients, server>>

TimelineNext == TimelineAnalyze

SpecTimeline == TimelineInit /\ [][TimelineNext]_vars

\* The records of the input that carry the id_cita.
C22_Group(id_cita) == {i \in 1..Len(appointments) : appointments[i].id_cita = id_cita}

\* The status of the record as the report gives it: trimmed, sin_estado
\* when there is none.
C22_Status(i) ==
    IF Has(appointments[i], "estado_cita")
    THEN Strip(appointments[i].estado_cita) ELSE SinEstado

C22_IsReprogram(i) ==
    C22_Status(i)[1] \in {"Reprogramada", "REPROGRAMADA", "reprogramada"}

C22_IsDated(i) ==
    Has(appointments[i], "fecha_cita") /\ IsIsoDate(appointments[i].fecha_cita)

\* The doctor of the record, runs of whitespace apart.
C22_Doctor(i) ==
    IF Has(appointments[i], "medico")
    THEN SelectSeq(appointments[i].medico, LAMBDA ch : ch # " ") ELSE <<>>

\* C22: total_citas is the number of distinct id_cita and
\* reprogrammed_citas the number of those with a record whose status
\* starts with "reprogram" in any case; each id_cita has one entry, whose
\* reprogram_count is the number of such records, whose transitions list
\* the records of the group by non-decreasing date, whose final_estado is
\* the status of a record of the latest date, and whose doctors are the
\* distinct doctors of the group, each once.
C22_TimelineSummarisesEachAppointment ==
    report.service = "appointment_state_timeline" =>
        LET ids == {appointments[i].id_cita : i \in 1..Len(appointments)}
            Rank(i) == ToOrdinal(appointments[i].fecha_cita)
        IN  /\ report.total_citas = Cardinality(ids)
            /\ report.reprogrammed_citas =
                   Cardinality({id \in ids : \E i \in C22_Group(id) : C22_IsReprogram(i)})
            /\ Len(report.entries) = Cardinality(ids)
            /\ \A id \in ids : \E n \in 1..Len(report.entries) :
                   LET entry == report.entries[n]
                       dated == {i \in C22_Group(id) : C22_IsDated(i)}
                   IN  /\ entry.id_cita = id
                       /\ entry.reprogram_count =
                              Cardinality({i \in C22_Group(id) : C22_IsReprogram(i)})
                       /\ Len(entry.transitions) = Cardinality(C22_Group(id))
                       /\ \A a, b \in 1..Len(entry.transitions) :
                              (/\ a < b
                               /\ entry.transitions[a][2] # <<>>
                               /\ entry.transitions[b][2] # <<>>)
                              => ToOrdinal(entry.transitions[a][2])
                                     <= ToOrdinal(entry.transitions[b][2])
                       /\ dated # {} =>
                              \E i \in dated :
                                  /\ \A j \in dated : Rank(j) <= Rank(i)
                                  /\ entry.final_estado = C22_Status(i)
                       /\ Range(entry.doctors) =
                              {C22_Doctor(i) : i \in C22_Group(id)} \ {<<>>}
                       /\ Cardinality(Range(entry.doctors)) = Len(entry.doctors)

\* Appointment 1 reprogrammed twice, with doctor B on 1 January and with
\* doctor A on 9 January, and an appointment 2 that never was.
C22_Witness ==
    /\ report.service = "appointment_state_timeline"
    /\ report.total_citas = 2
    /\ report.reprogrammed_citas = 1
    /\ \E n \in 1..Len(report.entries) :
           /\ report.entries[n].reprogram_count = 2
           /\ Len(report.entries[n].transitions) = 3
           /\ report.entries[n].transitions[1][2] = <<2025, 1, 1>>
           /\ report.entries[n].doctors = <<<<"B">>, <<"A">>>>
           /\ report.entries[n].final_estado = <<"REPROGRAMADA">>

(***************************************************************************)
(* DoctorUtilizationService                                                *)
(*                                                                         *)
(* A doctor, a specialty or a status is a str whose words are one token    *)
(* each; a rate is the exact fraction [num, den] with den > 0.             *)
(***************************************************************************)
UTILIZATION_THRESHOLD == [num |-> 3, den |-> 4]

CANCELLATION_THRESHOLD == [num |-> 1, den |-> 5]

\* a < b for two fractions of positive denominators
FractionLess(a, b) == a.num * b.den < b.num * a.den

\* (doctor, specialty), each stripped and in title case
UtilizationKey(a) ==
    <<TitleWords(Strip(IF Truthy(a, "medico") THEN a.medico ELSE SinMedico)),
      TitleWords(Strip(IF Truthy(a, "especialidad") THEN a.especialidad ELSE General))>>

\* (appointment.estado_cita or "").strip().lower()
UtilizationStatus(a) ==
    IF Truthy(a, "estado_cita") THEN LowerWords(Strip(a.estado_cita)) ELSE <<>>

\* counts[key] after the first loop
UtilizationCounts(records, key) ==
    LET With(status) ==
            Cardinality({i \in 1..Len(records) :
                            /\ UtilizationKey(records[i]) = key
                            /\ UtilizationStatus(records[i]) = <<status>>})
    IN  [completed |-> With("completada"),
         cancelled |-> With("cancelada"),
         reprogrammed |-> With("reprogramada"),
         scheduled |-> Cardinality({i \in 1..Len(records) :
                                       UtilizationKey(records[i]) = key})]

\* The threshold counted as exceeded when it is only reached.
AboveCancellationMutant(cancellation) ==
    ~FractionLess(cancellation, CANCELLATION_THRESHOLD)

\* cancellation > self.CANCELLATION_THRESHOLD
AboveCancellation(cancellation) == FractionLess(CANCELLATION_THRESHOLD, cancellation)

\* The entry of one key, before the test that appends it or not.
UtilizationEntry(key, metrics) ==
    LET utilization == [num |-> metrics.completed, den |-> metrics.scheduled]
        cancellation == [num |-> metrics.cancelled + metrics.reprogrammed,
                         den |-> metrics.scheduled]
    IN  [doctor |-> key[1],
         specialty |-> key[2],
         completed |-> metrics.completed,
         scheduled |-> metrics.scheduled,
         utilization_rate |-> utilization,
         cancellation_rate |-> cancellation,
         deviation |->
             [num |-> utilization.num * UTILIZATION_THRESHOLD.den
                          - UTILIZATION_THRESHOLD.num * utilization.den,
              den |-> utilization.den * UTILIZATION_THRESHOLD.den],
         status |-> IF AboveCancellation(cancellation) THEN "high_cancellations"
                    ELSE IF FractionLess(utilization, UTILIZATION_THRESHOLD)
                    THEN "low_utilization"
                    ELSE "ok"]

RECURSIVE InsertByDeviation(_, _)
InsertByDeviation(x, s) ==
    IF s = <<>> THEN <<x>>
    ELSE IF FractionLess(x.deviation, Head(s).deviation) THEN <<x>> \o s
    ELSE <<Head(s)>> \o InsertByDeviation(x, Tail(s))

\* entries.sort(key=lambda e: e.deviation)
RECURSIVE SortByDeviation(_)
SortByDeviation(s) ==
    IF s = <<>> THEN <<>>
    ELSE InsertByDeviation(s[Len(s)], SortByDeviation(SubSeq(s, 1, Len(s) - 1)))

\* DoctorUtilizationService.analyze
DoctorUtilizationReport(records) ==
    LET keys == FirstSeen([i \in 1..Len(records) |-> UtilizationKey(records[i])])
        all == [n \in 1..Len(keys) |->
                   UtilizationEntry(keys[n], UtilizationCounts(records, keys[n]))]
        Appended(e) ==
            \/ FractionLess(e.utilization_rate, UTILIZATION_THRESHOLD)
            \/ AboveCancellation(e.cancellation_rate)
    IN  [service |-> "doctor_utilization",
         threshold |-> UTILIZATION_THRESHOLD,
         cancellation_threshold |-> CANCELLATION_THRESHOLD,
         entries |-> SortByDeviation(SelectSeq(all, Appended))]

MaxUtilizationRecords == 5

UtilizationRecords ==
    {[medico |-> <<"A">>, especialidad |-> <<"Cardio">>,
      estado_cita |-> <<"Completada">>],
     [medico |-> <<"A">>, especialidad |-> <<"Cardio">>,
      estado_cita |-> <<" ", "CANCELADA">>],
     [medico |-> <<"A">>, especialidad |-> <<"Cardio">>,
      estado_cita |-> <<"Programada">>],
     [especialidad |-> <<"general">>, estado_cita |-> <<"Completada">>],
     [medico |-> <<" ", "A">>, estado_cita |-> <<"Reprogramada">>],
     [medico |-> <<>>]}

UtilizationInit ==
    /\ appointments \in SeqUpTo(UtilizationRecords, MaxUtilizationRecords)
    /\ patients = <<>>
    /\ report = NoReport
    /\ ServerIdle

UtilizationAnalyze ==
    /\ report' = DoctorUtilizationReport(appointments)
    /\ UNCHANGED <<appointments, patients, server>>

UtilizationNext == UtilizationAnalyze

SpecUtilization == UtilizationInit /\ [][UtilizationNext]_vars

\* The doctor and the specialty of the record as the report names them.
C23_Pair(i) ==
    LET a == appointments[i]
        Named(f) == Has(a, f) /\ a[f] # <<>>
    IN  <<IF Named("medico")
          THEN SelectSeq(a.medico, LAMBDA w : w # " ") ELSE <<"Sin Médico">>,
          IF Named("especialidad") /\ a.especialidad # <<"general">>
          THEN a.especialidad ELSE <<"General">>>>

\* How many records of the pair have one of the statuses, case and
\* surrounding whitespace apart.
C23_Count(pair, statuses) ==
    Cardinality({i \in 1..Len(appointments) :
                    /\ C23_Pair(i) = pair
                    /\ Has(appointments[i], "estado_cita")
                    /\ \E w \in statuses :
                           appointments[i].estado_cita \in {<<w>>, <<" ", w>>}})

C23_Scheduled(pair) ==
    Cardinality({i \in 1..Len(appointments) : C23_Pair(i) = pair})

C23_Completed(pair) == C23_Count(pair, {"Completada"})

C23_Lost(pair) == C23_Count(pair, {"Cancelada", "CANCELADA", "Reprogramada"})

\* completed / scheduled < 0.75, that is 4 * completed < 3 * scheduled
C23_LowUtilization(pair) == 4 * C23_Completed(pair) < 3 * C23_Scheduled(pair)

\* (cancelled + reprogrammed) / scheduled > 0.2
C23_HighCancellations(pair) == 5 * C23_Lost(pair) > C23_Scheduled(pair)

\* C23: a (doctor, specialty) pair has an entry exactly when its
\* completed / scheduled is below 0.75 or its (cancelled + reprogrammed) /
\* scheduled is above 0.2; the entry carries these two ratios, has status
\* high_cancellations when the second is above 0.2 and low_utilization
\* otherwise, never ok; the entries are in non-decreasing order of deviation.
C23_ReportsPairsOffThresholds ==
    report.service = "doctor_utilization" =>
        LET pairs == {C23_Pair(i) : i \in 1..Len(appointments)}
            flagged == {p \in pairs : C23_LowUtilization(p) \/ C23_HighCancellations(p)}
            entries == report.entries
        IN  /\ Len(entries) = Cardinality(flagged)
            /\ {<<entries[n].doctor, entries[n].specialty>> : n \in 1..Len(entries)}
                   = flagged
            /\ \A n \in 1..Len(entries) :
                   LET pair == <<entries[n].doctor, entries[n].specialty>>
                   IN  /\ entries[n].utilization_rate.num * C23_Scheduled(pair) =
                              C23_Completed(pair) * entries[n].utilization_rate.den
                       /\ entries[n].cancellation_rate.num * C23_Scheduled(pair) =
                              C23_Lost(pair) * entries[n].cancellation_rate.den
                       /\ entries[n].status =
                              (IF C23_HighCancellations(pair)
                               THEN "high_cancellations" ELSE "low_utilization")
            /\ \A n \in 1..(Len(entries) - 1) :
                   entries[n].deviation.num * entries[n + 1].deviation.den
                       <= entries[n + 1].deviation.num * entries[n].deviation.den

\* Two pairs with entries: one without a completed appointment and above
\* the cancellation threshold, then one with half of its appointments
\* completed and none cancelled.
C23_Witness ==
    /\ report.service = "doctor_utilization"
    /\ Len(report.entries) = 2
    /\ report.entries[1].status = "high_cancellations"
    /\ report.entries[1].utilization_rate.num = 0
    /\ report.entries[2].status = "low_utilization"
    /\ report.entries[2].utilization_rate.num * 2 = report.entries[2].utilization_rate.den

(***************************************************************************)
(* DoctorNotificationService                                               *)
(*                                                                         *)
(* fecha_cita is "YYYY-MM-DD", the tuple <<y, m, d>>, or                   *)
(* "YYYY-MM-DDTHH:00:00", the tuple <<y, m, d, h>>; a parsed datetime is   *)
(* the tuple <<y, m, d, h>> (<<>> for None).                               *)
(***************************************************************************)
RECENT_WINDOW_DAYS == 7

CANCEL_THRESHOLD == 2

MultiplesCitas == "Múltiples citas en períodos cortos"

CancelacionesRecurrentes == "Cancelaciones recurrentes"

\* _parse_date
NotificationParseDate(a) ==
    IF ~Truthy(a, "fecha_cita") THEN <<>>
    ELSE IF IsIsoDate(a.fecha_cita) THEN a.fecha_cita \o <<0>>
    ELSE IF /\ Len(a.fecha_cita) = 4
            /\ IsIsoDate(SubSeq(a.fecha_cita, 1, 3))
            /\ a.fecha_cita[4] \in 0..23
    THEN a.fecha_cita
    ELSE <<>>

\* The hours from the start of the calendar to the datetime.
HoursOf(date) == ToOrdinal(SubSeq(date, 1, 3)) * 24 + date[4]

\* (date - prev_date).days: whole days, rounded down
DeltaDays(prev_date, date) == (HoursOf(date) - HoursOf(prev_date)) \div 24

\* (doctor, id_paciente), the key of grouped; id_paciente None is <<>>
NotificationKey(a) ==
    <<TitleWords(Strip(IF Truthy(a, "medico") THEN a.medico ELSE SinMedico)),
      IF Has(a, "id_paciente") THEN <<a.id_paciente>> ELSE <<>>>>

\* sorted(appts, key=lambda a: self._parse_date(a.fecha_cita) or datetime.min)
SortedAppts(records, key) ==
    LET appts == SelectSeq(records, LAMBDA a : NotificationKey(a) = key)
    IN  Vals(SortKeyed([i \in 1..Len(appts) |->
            [key |-> IF NotificationParseDate(appts[i]) # <<>>
                     THEN NotificationParseDate(appts[i]) ELSE <<1, 1, 1, 0>>,
             val |-> appts[i]]]))

\* _detect_patterns
DetectPatterns(appts) ==
    LET dated == SelectSeq(appts, LAMBDA a : NotificationParseDate(a) # <<>>)
        closeness ==
            Cardinality({i \in 2..Len(dated) :
                DeltaDays(NotificationParseDate(dated[i - 1]),
                          NotificationParseDate(dated[i])) <= RECENT_WINDOW_DAYS})
        cancels ==
            Cardinality({i \in 1..Len(appts) :
                /\ Truthy(appts[i], "estado_cita")
                /\ LowerWords(Strip(appts[i].estado_cita)) = <<"cancelada">>})
    IN  (IF closeness >= 2 THEN <<MultiplesCitas>> ELSE <<>>)
        \o (IF cancels >= CANCEL_THRESHOLD THEN <<CancelacionesRecurrentes>> ELSE <<>>)

\* The entry of one key: the body of the loop over grouped.items().
NotificationEntry(records, known, key) ==
    LET appts_sorted == SortedAppts(records, key)
        patterns == DetectPatterns(appts_sorted)
        dated == SelectSeq(appts_sorted, LAMBDA a : NotificationParseDate(a) # <<>>)
        found == {i \in 1..Len(known) : known[i].id_paciente = key[2][1]}
        patient == known[CHOOSE i \in found : \A j \in found : j <= i]
    IN  [doctor |-> key[1],
         id_paciente |-> key[2][1],
         nombre |-> IF found = {} THEN <<"Paciente ", key[2][1]>>
                    ELSE IF Has(patient, "nombre") THEN patient.nombre
                    ELSE <<>>,
         patterns |-> patterns,
         severity |-> IF Len(patterns) > 1 THEN "high" ELSE "medium",
         appointment_dates |->
             [i \in 1..Len(dated) |-> SubSeq(NotificationParseDate(dated[i]), 1, 3)]]

\* DoctorNotificationService.analyze
DoctorNotificationReport(known, records) ==
    LET keys == FirstSeen([i \in 1..Len(records) |-> NotificationKey(records[i])])
        alerted == SelectSeq(keys, LAMBDA k :
                       k[2] # <<>> /\ DetectPatterns(SortedAppts(records, k)) # <<>>)
        entries == [n \in 1..Len(alerted) |->
                       NotificationEntry(records, known, alerted[n])]
    IN  [service |-> "doctor_notifications",
         total_alerts |-> Len(entries),
         entries |-> Vals(SortKeyed([n \in 1..Len(entries) |->
                        [key |-> <<-Len(entries[n].patterns)>>, val |-> entries[n]]]))]

MaxNotificationRecords == 4

NotificationRecords ==
    {[medico |-> <<"A">>, id_paciente |-> 1, fecha_cita |-> <<2025, 3, 1>>,
      estado_cita |-> <<"Completada">>],
     [medico |-> <<"A">>, id_paciente |-> 1, fecha_cita |-> <<2025, 3, 8>>,
      estado_cita |-> <<"Cancelada">>],
     [medico |-> <<"A">>, id_paciente |-> 1, fecha_cita |-> <<2025, 3, 8, 2>>,
      estado_cita |-> <<" ", "CANCELADA">>],
     [medico |-> <<"A">>, id_paciente |-> 1, fecha_cita |-> <<2025, 3, 15>>,
      estado_cita |-> <<"Completada">>],
     [medico |-> <<"A">>, id_paciente |-> 1, fecha_cita |-> <<2025, 3, 15, 4>>,
      estado_cita |-> <<"Completada">>],
     [medico |-> <<"A">>, id_paciente |-> 1, estado_cita |-> <<"Cancelada">>],
     [medico |-> <<" ", "A">>, id_paciente |-> 2, fecha_cita |-> <<2025, 3, 1>>,
      estado_cita |-> <<"Cancelada">>],
     [medico |-> <<"A">>, fecha_cita |-> <<2025, 3, 1>>,
      estado_cita |-> <<"Cancelada">>],
     [id_paciente |-> 1, fecha_cita |-> <<2025, 2, 30>>]}

NotificationPatients ==
    {<<>>, <<[id_paciente |-> 1, nombre |-> <<"A">>]>>}

NotificationInit ==
    /\ appointments \in SeqUpTo(NotificationRecords, MaxNotificationRecords)
    /\ patients \in NotificationPatients
    /\ report = NoReport
    /\ ServerIdle

NotificationAnalyze ==
    /\ report' = DoctorNotificationReport(patients, appointments)
    /\ UNCHANGED <<appointments, patients, server>>

NotificationNext == NotificationAnalyze

SpecNotification == NotificationInit /\ [][NotificationNext]_vars

\* The (doctor, patient) pair of the record; the model's doctors are A,
\* with or without leading whitespace, and none.
C24_Pair(i) ==
    <<IF Has(appointments[i], "medico") THEN <<"A">> ELSE <<"Sin Médico">>,
      IF Has(appointments[i], "id_paciente") THEN appointments[i].id_paciente ELSE 0>>

\* The hour of the appointment since the start of the calendar, -1 without
\* a date.
C24_Hour(i) ==
    LET a == appointments[i]
    IN  IF ~Has(a, "fecha_cita") \/ ~IsIsoDate(SubSeq(a.fecha_cita, 1, 3)) THEN -1
        ELSE ToOrdinal(SubSeq(a.fecha_cita, 1, 3)) * 24
                 + (IF Len(a.fecha_cita) = 4 THEN a.fecha_cita[4] ELSE 0)

\* i comes before j among the dated appointments of a pair.
C24_Before(i, j) ==
    C24_Hour(i) < C24_Hour(j) \/ (C24_Hour(i) = C24_Hour(j) /\ i < j)

\* The pairs of consecutive dated appointments of the pair that are at most
\* 7 days apart.
C24_ClosePairs(pair) ==
    LET dated == {i \in 1..Len(appointments) : C24_Pair(i) = pair /\ C24_Hour(i) >= 0}
    IN  {<<i, j>> \in dated \X dated :
            /\ C24_Before(i, j)
            /\ ~\E k \in dated : C24_Before(i, k) /\ C24_Before(k, j)
            /\ C24_Hour(j) - C24_Hour(i) <= 7 * 24}

C24_Cancelled(pair) ==
    {i \in 1..Len(appointments) :
        /\ C24_Pair(i) = pair
        /\ Has(appointments[i], "estado_cita")
        /\ appointments[i].estado_cita
               \in {<<"Cancelada">>, <<" ", "CANCELADA">>}}

\* C24: for each (doctor, patient) pair with a patient id, "Múltiples citas
\* en períodos cortos" is raised iff at least two pairs of consecutive dated
\* appointments are at most 7 days apart and "Cancelaciones recurrentes" iff
\* at least two appointments are cancelled; the pair has an entry iff a
\* pattern is raised, of severity high iff both are and medium otherwise,
\* and total_alerts is the number of entries.
C24_AlertsFollowPatterns ==
    report.service = "doctor_notifications" =>
        LET pairs == {C24_Pair(i) : i \in {k \in 1..Len(appointments) :
                                              Has(appointments[k], "id_paciente")}}
            Entries(pair) == {n \in 1..Len(report.entries) :
                                 /\ report.entries[n].doctor = pair[1]
                                 /\ report.entries[n].id_paciente = pair[2]}
        IN  /\ report.total_alerts = Len(report.entries)
            /\ \A n \in 1..Len(report.entries) :
                   <<report.entries[n].doctor, report.entries[n].id_paciente>> \in pairs
            /\ \A pair \in pairs :
                   LET close == Cardinality(C24_ClosePairs(pair)) >= 2
                       recurrent == Cardinality(C24_Cancelled(pair)) >= 2
                   IN  IF ~close /\ ~recurrent THEN Entries(pair) = {}
                       ELSE /\ Cardinality(Entries(pair)) = 1
                            /\ \A n \in Entries(pair) :
                                   /\ close <=> MultiplesCitas
                                                    \in Range(report.entries[n].patterns)
                                   /\ recurrent <=> CancelacionesRecurrentes
                                                    \in Range(report.entries[n].patterns)
                                   /\ report.entries[n].severity =
                                          (IF close /\ recurrent THEN "high"
                                           ELSE "medium")

(***************************************************************************)
(* TextNormalizationService.normalize                                      *)
(*                                                                         *)
(* patients holds the dicts of the dataset; the repository turns each into *)
(* a PatientRecord with from_dict.                                         *)
(***************************************************************************)
\* PatientRecord.from_dict, for the fields the service reads: nombre is
\* source.get("nombre") or "", ciudad is source.get("ciudad").
PatientFromDict(source) ==
    [f \in (DOMAIN source \cap {"id_paciente", "ciudad"}) \cup {"nombre"} |->
        IF f = "nombre" /\ ~Truthy(source, "nombre") THEN <<>> ELSE source[f]]

NORMALIZATION_METHOD == "strip() + lower() + remove_tildes"

\* _process_record: the entries of the fields that are not None and that
\* are empty or differ from their normalized value.
ProcessRecord(record) ==
    LET Logged(field) ==
            /\ Has(record, field)
            /\ ~(record[field] # <<>> /\ NormalizeText(record[field]) = record[field])
        fields == SelectSeq(<<"nombre", "ciudad">>, Logged)
    IN  [k \in 1..Len(fields) |->
            [id_paciente |-> record.id_paciente,
             field |-> fields[k],
             original_value |-> record[fields[k]],
             normalized_value |-> NormalizeText(record[fields[k]]),
             method |-> NORMALIZATION_METHOD]]

RECURSIVE TextLogEntries(_)
TextLogEntries(records) ==
    IF records = <<>> THEN <<>>
    ELSE ProcessRecord(Head(records)) \o TextLogEntries(Tail(records))

\* TextNormalizationService.normalize
TextNormalizationReport(sources) ==
    LET records == [i \in 1..Len(sources) |-> PatientFromDict(sources[i])]
        log_entries == TextLogEntries(records)
    IN  [service |-> "text_normalization",
         total_records |-> Len(records),
         normalized_fields |->
             [f \in {"nombre", "ciudad"} |->
                 Cardinality({k \in 1..Len(log_entries) : log_entries[k].field = f})],
         log_entries |-> log_entries]

MaxNormPatients == 2

NormFieldValues == {<<>>, <<"a">>, <<" ", "A^">>, <<"a", "^">>}

NormPatients ==
    WithOpt(WithOpt({[id_paciente |-> 0]}, "nombre", NormFieldValues),
            "ciudad", NormFieldValues)

NormalizeInit ==
    /\ \E s \in SeqUpTo(NormPatients, MaxNormPatients) :
           patients = [i \in 1..Len(s) |-> [s[i] EXCEPT !.id_paciente = i]]
    /\ appointments = <<>>
    /\ report = NoReport
    /\ ServerIdle

Normalize ==
    /\ report' = TextNormalizationReport(patients)
    /\ UNCHANGED <<appointments, patients, server>>

NormalizeNext == Normalize

SpecNormalize == NormalizeInit /\ [][NormalizeNext]_vars

\* The value the record of the i-th patient stores in the field: that of
\* the dataset, a nombre that is missing or null being stored as "".
C25_Stored(i, field) ==
    IF Has(patients[i], field) THEN patients[i][field] ELSE <<>>

C25_NonNull(i, field) == field = "nombre" \/ Has(patients[i], field)

\* C25: normalize logs one entry for a patient's nombre or ciudad exactly
\* when the field is non-null and its normalized value differs from the
\* stored value, a field already in normalized form having no entry, and
\* normalized_fields[field] is the number of log entries of the field.
C25_LogsExactlyTheChangedFields ==
    report.service = "text_normalization" =>
        \A field \in {"nombre", "ciudad"} :
            /\ report.normalized_fields[field] =
                   Cardinality({k \in 1..Len(report.log_entries) :
                                   report.log_entries[k].field = field})
            /\ \A i \in 1..Len(patients) :
                   Cardinality({k \in 1..Len(report.log_entries) :
                                   /\ report.log_entries[k].id_paciente = i
                                   /\ report.log_entries[k].field = field})
                   = (IF /\ C25_NonNull(i, field)
                         /\ NormalizeText(C25_Stored(i, field)) # C25_Stored(i, field)
                      THEN 1 ELSE 0)

\* The log entries that list the id among their duplicate_ids.
C26_ListedIn(id) ==
    {k \in 1..Len(report.log_entries) : id \in Range(report.log_entries[k].duplicate_ids)}

\* C26: over both criteria, no patient id is among the duplicate_ids of
\* more than one log entry, no entry lists its own canonical_id, every
\* entry lists at least one id, total_groups is the number of entries and
\* total_duplicates the number of ids listed.
C26_DuplicatesArchivedOnce ==
    report.service = "duplicate_detection" =>
        /\ \A r \in Range(patients) : Cardinality(C26_ListedIn(r.id_paciente)) <= 1
        /\ \A k \in 1..Len(report.log_entries) :
               /\ report.log_entries[k].canonical_id
                      \notin Range(report.log_entries[k].duplicate_ids)
               /\ report.log_entries[k].duplicate_ids # <<>>
        /\ report.total_groups = Len(report.log_entries)
        /\ report.total_duplicates =
               Cardinality({<<k, n>> \in (1..Len(report.log_entries)) \X (1..MaxDupPatients) :
                               n <= Len(report.log_entries[k].duplicate_ids)})

\* Two patients of one name and birth date and a third of their name and
\* the city of the archived one: the second criterion finds the archived
\* patient in its group and lists it no second time.
C26_Witness ==
    /\ report.service = "duplicate_detection"
    /\ report.total_groups = 1
    /\ report.total_duplicates = 1
    /\ \E a, b, c \in 1..Len(patients) :
           /\ report.log_entries[1].criteria = "nombre+fecha_nacimiento"
           /\ report.log_entries[1].duplicate_ids = <<patients[a].id_paciente>>
           /\ report.log_entries[1].canonical_id = patients[b].id_paciente
           /\ KeyByCity(patients[a]) # NoKey
           /\ KeyByCity(patients[a]) = KeyByCity(patients[c])
           /\ c \notin {a, b}

\* C27: an id that is the canonical_id of a log entry is among the
\* duplicate_ids of no log entry; in particular an id archived as a
\* duplicate under name+birthdate is not chosen as canonical under
\* name+city.
C27_CanonicalNeverArchived ==
    report.service = "duplicate_detection" =>
        \A k \in 1..Len(report.log_entries) :
            C26_ListedIn(report.log_entries[k].canonical_id) = {}

\* C28: after any uploads and runs, POST /run/{case} is answered 404 only
\* for a case that is not one of the five built-in services, whatever the
\* dataset file holds.
C28_Only404ForUnknownCase ==
    (/\ report.service = "http"
     /\ report.endpoint = "post_run"
     /\ report.status_code = 404)
    => PathParameter(report.path) \notin BuiltInCases

(***************************************************************************)
(* AppointmentReviewService and AppointmentAlertService                    *)
(*                                                                         *)
(* A status is a str whose words are one token each, and so is the date of *)
(* a fecha_cita.                                                           *)
(***************************************************************************)
TARGET_STATES == {<<"Completada">>, <<"Cancelada">>}

\* not record.field or not record.field.strip()
IsBlank(record, field) == ~Truthy(record, field) \/ Strip(record[field]) = <<>>

\* The status compared as it is stored.
ReviewEstadoMutant(record) ==
    IF Truthy(record, "estado_cita") THEN record.estado_cita ELSE <<>>

\* (record.estado_cita or "").strip()
ReviewEstado(record) ==
    IF Truthy(record, "estado_cita") THEN Strip(record.estado_cita) ELSE <<>>

\* _collect_issues
CollectIssues(record) ==
    (IF IsBlank(record, "fecha_cita") THEN <<"fecha_cita inválida o ausente">> ELSE <<>>)
    \o (IF IsBlank(record, "medico") THEN <<"médico no asignado">> ELSE <<>>)

\* AppointmentReviewService.review
AppointmentReviewReport(records) ==
    LET reviewed == SelectSeq(records, LAMBDA r :
                        ReviewEstado(r) \in TARGET_STATES /\ CollectIssues(r) # <<>>)
    IN  [service |-> "appointment_review",
         total_citas |-> Len(records),
         reviewed_citas |-> Len(reviewed),
         entries |-> [k \in 1..Len(reviewed) |->
                         [id_cita |-> reviewed[k].id_cita,
                          estado_cita |-> ReviewEstado(reviewed[k]),
                          issues |-> CollectIssues(reviewed[k])]
                         @@ [f \in DOMAIN reviewed[k] \cap {"fecha_cita", "medico"} |->
                                reviewed[k][f]]]]

\* AppointmentAlertService.scan_alerts
AppointmentAlertReport(records) ==
    LET alerted == SelectSeq(records, LAMBDA r :
                       IsBlank(r, "fecha_cita") \/ IsBlank(r, "medico"))
    IN  [service |-> "appointment_alerts",
         total_records |-> Len(records),
         alerts |-> Len(alerted),
         entries |-> [k \in 1..Len(alerted) |->
                         [id_cita |-> alerted[k].id_cita,
                          falta_fecha |-> IsBlank(alerted[k], "fecha_cita"),
                          falta_medico |-> IsBlank(alerted[k], "medico"),
                          note |-> <<"Alerta automática: ">>
                                   \o (IF IsBlank(alerted[k], "fecha_cita")
                                       THEN <<"fecha_cita ausente">> ELSE <<>>)
                                   \o (IF IsBlank(alerted[k], "medico")
                                       THEN <<"médico sin asignar">> ELSE <<>>)
                                   \o <<". Validar manualmente.">>]
                         @@ [f \in DOMAIN alerted[k] \cap {"id_paciente", "especialidad"} |->
                                alerted[k][f]]]]

MaxReviewRecords == 2

ReviewRecords ==
    WithOpt(WithOpt(WithOpt({[id_cita |-> 0]},
        "estado_cita", {<<"Completada">>, <<" ", "Cancelada">>, <<"CANCELADA">>}),
        "fecha_cita", {<<" ">>, <<"2025-01-01">>}),
        "medico", {<<"\t">>, <<"A">>})

ReviewInit ==
    /\ \E s \in SeqUpTo(ReviewRecords, MaxReviewRecords) :
           appointments = [i \in 1..Len(s) |-> [s[i] EXCEPT !.id_cita = i]]
    /\ patients = <<>>
    /\ report = NoReport
    /\ ServerIdle

Review ==
    /\ report' = AppointmentReviewReport(appointments)
    /\ UNCHANGED <<appointments, patients, server>>

ScanAlerts ==
    /\ report' = AppointmentAlertReport(appointments)
    /\ UNCHANGED <<appointments, patients, server>>

ReviewNext == Review \/ ScanAlerts

SpecReview == ReviewInit /\ [][ReviewNext]_vars

\* Whether the field of the i-th appointment is missing or blank.
C29_Missing(i, field) ==
    \/ ~Has(appointments[i], field)
    \/ \A n \in 1..Len(appointments[i][field]) :
           appointments[i][field][n] \in {" ", "\t"}

\* The appointments whose trimmed status is Completada or Cancelada and
\* whose date or doctor is missing or blank.
C29_ToReview ==
    {i \in 1..Len(appointments) :
        /\ Has(appointments[i], "estado_cita")
        /\ appointments[i].estado_cita
               \in {<<"Completada">>, <<" ", "Cancelada">>}
        /\ (C29_Missing(i, "fecha_cita") \/ C29_Missing(i, "medico"))}

C29_Ids(entries) == {entries[k].id_cita : k \in 1..Len(entries)}

\* C29: the review has one entry for each appointment whose trimmed status
\* is Completada or Cancelada and whose fecha_cita or medico is missing or
\* blank, and for no other; every appointment the review reports the alert
\* scan of the same list reports too, so reviewed_citas <= alerts.
C29_ReviewedAreAlerted ==
    /\ report.service = "appointment_review" =>
           /\ C29_Ids(report.entries) = C29_ToReview
           /\ Len(report.entries) = Cardinality(C29_ToReview)
           /\ report.reviewed_citas = Len(report.entries)
           /\ C29_Ids(report.entries)
                  \subseteq C29_Ids(AppointmentAlertReport(appointments).entries)
           /\ report.reviewed_citas <= AppointmentAlertReport(appointments).alerts
    /\ report.service = "appointment_alerts" =>
           /\ C29_ToReview \subseteq C29_Ids(report.entries)
           /\ AppointmentReviewReport(appointments).reviewed_citas <= report.alerts

\* A review of two appointments without a doctor, one cancelled and one
\* CANCELADA: both are alerted, only the first is reviewed.
C29_Witness ==
    /\ report.service = "appointment_review"
    /\ report.reviewed_citas = 1
    /\ report.entries[1].estado_cita = <<"Cancelada">>
    /\ AppointmentAlertReport(appointments).alerts = 2

\* The entry of every appointment, listed or not, in the order analyze
\* scores them.
C30_Scored ==
    RiskEntries(Vals(SortKeyed([i \in 1..Len(appointments) |->
                                   [key |-> RiskSortKey(appointments[i]),
                                    val |-> appointments[i]]])), 1)

\* Whether score a is below score b.
C30_Below(a, b) == KeyLess(<<a.sigmoid, a.ulps>>, <<b.sigmoid, b.ulps>>)

\* The id_cita of the listed entries.
C30_Listed == {report.entries[i].id_cita : i \in 1..Len(report.entries)}

\* The scores of the entries of s that satisfy Test, in order.
C30_Scores(s, Test(_)) ==
    LET kept == SelectSeq(s, Test) IN [i \in 1..Len(kept) |-> kept[i].risk_score]

C30_Any(entry) == TRUE

\* A factor that comes from the history of the patient.
C30_HistoryFactors ==
    {<<"Cancelación previa">>, <<"Reprogramada previa">>,
     <<"Intervalo corto (<4 días)">>, <<"Intervalo ajustado (<8 días)">>}

\* C30: the report of CancellationRiskService.analyze lists at most 20
\* entries in non-increasing risk_score order, each the entry of an
\* appointment of its own, and no appointment left out scores above a
\* listed one; total_records, high_risk_count, average_risk and
\* specialty_risk count every appointment, listed or not; and a listed
\* entry without id_paciente has no days_since_last and no factor of a
\* prior status or an interval.
C30_TopTwentyOfAllScored ==
    report.service = "cancellation_risk" =>
        LET entries == report.entries
            scored == C30_Scored
            n == Len(appointments)
        IN  /\ Len(entries) = (IF n < 20 THEN n ELSE 20)
            /\ \A i \in 1..Len(entries) : \A j \in 1..Len(entries) :
                   i < j => ~C30_Below(entries[i].risk_score, entries[j].risk_score)
            /\ Cardinality(C30_Listed) = Len(entries)
            /\ \A i \in 1..Len(entries) :
                   \E k \in 1..Len(scored) : scored[k] = entries[i]
            /\ \A k \in 1..Len(scored) :
                   scored[k].id_cita \notin C30_Listed =>
                       \A i \in 1..Len(entries) :
                           ~C30_Below(entries[i].risk_score, scored[k].risk_score)
            /\ report.total_records = n
            /\ report.high_risk_count =
                   Cardinality({k \in 1..Len(scored) :
                                   scored[k].risk_score.sigmoid >= RiskThresholdWeight})
            /\ report.average_risk.sum = C30_Scores(scored, C30_Any)
            /\ report.average_risk.over = (IF n > 1 THEN n ELSE 1)
            /\ {report.specialty_risk[i].specialty :
                    i \in 1..Len(report.specialty_risk)}
                   = {scored[k].especialidad : k \in 1..Len(scored)}
            /\ \A i \in 1..Len(report.specialty_risk) :
                   LET line == report.specialty_risk[i]
                       OfLine(entry) == entry.especialidad = line.specialty
                   IN  /\ line.sum = C30_Scores(scored, OfLine)
                       /\ line.over = Len(line.sum)
                       /\ \A j \in 1..Len(report.specialty_risk) :
                              report.specialty_risk[j].specialty = line.specialty
                                  => j = i
            /\ \A i \in 1..Len(entries) :
                   ~Has(entries[i], "id_paciente") =>
                       /\ ~Has(entries[i], "days_since_last")
                       /\ \A f \in 1..Len(entries[i].factors) :
                              entries[i].factors[f] \notin C30_HistoryFactors

\* Twenty-three appointments, twenty-two of them of high risk: the second
\* cancellation of patient 1 leads the twenty listed, nineteen of the
\* twenty-one cancelled appointments of no patient follow it with the
\* two factors of their own, and the first appointment of patient 1 is
\* left out.
C30_Witness ==
    /\ report.service = "cancellation_risk"
    /\ Len(appointments) = 23
    /\ report.total_records = 23
    /\ Len(report.entries) = 20
    /\ report.high_risk_count = 22
    /\ Has(report.entries[1], "id_paciente")
    /\ report.entries[1].factors[1] = <<"Cancelación previa">>
    /\ \A i \in 2..20 :
           /\ ~Has(report.entries[i], "id_paciente")
           /\ Len(report.entries[i].factors) = 2
           /\ report.entries[i].factors[1] = <<"Estado actual Cancelada">>
    /\ 1 \notin C30_Listed

====
